---- MODULE Spec2Model ----
(***************************************************************************)
(* A model of the suplalite protocol server: the call handlers and event   *)
(* handlers of suplalite/server/handlers.py, run by a connection runtime   *)
(* (reader loop, per-connection event loop, server event loop) over the    *)
(* in-memory world state.                                                  *)
(*                                                                         *)
(* A call handler is one action: the handlers hold no suspension point     *)
(* before their reply is written (queue adds are non-blocking), so the     *)
(* handler body and the write of its reply are one step of the reader      *)
(* loop.  An event handler is one action of the owning event loop.         *)
(***************************************************************************)
EXTENDS Integers, Sequences, FiniteSets, TLC

(***************************************************************************)
(* Bounds of the model.                                                    *)
(***************************************************************************)
MaxConns == 2
MaxClients == 2
MaxCalls == 3
MaxCliCalls == 2
MaxSends == 4

(***************************************************************************)
(* Static configuration (the world the tests build).                       *)
(***************************************************************************)
NumDevices == 2
NumChannels == 4
CHANNELSTATE == 65536
OtherFlags == 4097
UnknownGuid == 255

\* proto.ACTIVITY_TIMEOUT_MIN and proto.ACTIVITY_TIMEOUT_MAX, in seconds
ACTIVITY_TIMEOUT_MIN == 30
ACTIVITY_TIMEOUT_MAX == 240

\* connection numbers: enough for one session per device and MaxClients clients
Conns == 1..(IF MaxConns > NumDevices + MaxClients THEN MaxConns ELSE NumDevices + MaxClients)
Devices == 1..NumDevices
Channels == 1..NumChannels
ClientGuids == 101..(100 + MaxClients)

\* state.add_device(name, guid, manufacturer_id, product_id) per device id
DeviceCfg ==
  <<[guid |-> 1, manufacturer_id |-> 0, product_id |-> 0, channel_ids |-> <<1, 2, 3>>],
    [guid |-> 2, manufacturer_id |-> 7, product_id |-> 1, channel_ids |-> <<4>>]>>

\* state.add_channel(device_id, name, caption, type, func, flags) per channel id
ChannelCfg ==
  <<[device_id |-> 1, type |-> "RELAY", func |-> "POWERSWITCH", flags |-> CHANNELSTATE],
    [device_id |-> 1, type |-> "THERMOMETER", func |-> "THERMOMETER", flags |-> CHANNELSTATE],
    [device_id |-> 1, type |-> "RELAY", func |-> "POWERSWITCH", flags |-> CHANNELSTATE],
    [device_id |-> 2, type |-> "DIMMER", func |-> "DIMMER", flags |-> CHANNELSTATE]>>

\* the names setup_server gives the channels, per channel id
ChannelNames == <<"relay", "thermometer", "relay2", "lights">>

\* the channels of the world after setup
ConfiguredChannels ==
  [id \in 1..NumChannels |->
     [device_id |-> ChannelCfg[id].device_id, name |-> ChannelNames[id],
      type |-> ChannelCfg[id].type, func |-> ChannelCfg[id].func]]

(***************************************************************************)
(* Channel values: CHANNELVALUE_SIZE bytes.                                *)
(***************************************************************************)
Zero8 == <<0, 0, 0, 0, 0, 0, 0, 0>>
On8 == <<1, 0, 0, 0, 0, 0, 0, 0>>
Bytes8 == <<1, 2, 3, 4, 5, 6, 7, 8>>
Even8 == <<2, 2, 0, 0, 0, 0, 0, 0>>

VARIABLES
  online,        \* device_id -> Device.online
  devEvents,     \* device_id -> connection whose queue is the device's event sink (0: none)
  chValue,       \* channel_id -> Channel.value
  lastValue,     \* channel_id -> Channel.last_value (<<>>: None)
  clientIds,     \* client guid -> client_id (0: never registered)
  clientOnline,  \* client_id -> connected
  cliEvents,     \* client_id -> connection whose queue is the client's event sink
  authorized,    \* client_id -> Client.authorized
  connState,     \* connection -> "idle" (not accepted yet) | "open" | "closed"
  ctxKind,       \* connection -> "base" | "device" | "client"  (class of its context)
  ctxId,         \* connection -> device_id / client_id of its context (0 for base)
  error,         \* connection -> context.error
  queue,         \* connection -> context.events, a FIFO of events
  serverEvents,  \* server.events, a FIFO of events
  dispatch,      \* the worker of server.events: the event it handles and the handlers run
  activity,      \* connection -> context.activity_timeout and the seconds since its last packet
  channelTable,  \* channel_id -> device and name of the channel, as add_channel stored them
  stream,        \* the packet stream of one connection: its send mutex, senders and bytes
  outbox,        \* connection -> packets written to the peer since it was accepted
  last,          \* the step taken last (history variable)
  calls          \* number of packets received so far (bounded by MaxCalls)

vars == <<online, devEvents, chValue, lastValue, clientIds, clientOnline, cliEvents, authorized,
          connState, ctxKind, ctxId, error, queue, serverEvents, dispatch, activity, stream,
          channelTable, outbox, last, calls>>

stateVars == <<online, devEvents, chValue, lastValue, clientIds, clientOnline, cliEvents,
               authorized>>
connVars == <<connState, ctxKind, ctxId, error>>

(***************************************************************************)
(* Helpers.                                                                *)
(***************************************************************************)
Min(a, b) == IF a < b THEN a ELSE b
Max(a, b) == IF a > b THEN a ELSE b

Event(id, args) == [id |-> id, args |-> args]

\* list.index(x) of Python, 0-based; the caller guarantees membership
IndexOf(seq, x) == (CHOOSE i \in 1..Len(seq) : seq[i] = x) - 1

InSeq(seq, x) == \E i \in 1..Len(seq) : seq[i] = x

(***************************************************************************)
(* Wire records of channel values (proto.TRelayChannel_Value: on as one    *)
(* byte, flags as two bytes little endian, zero padding to 8 bytes;        *)
(* proto.TDimmerChannel_Value: brightness as one byte, zero padding).      *)
(***************************************************************************)
EncodeRelay(on, flags) ==
  <<IF on THEN 1 ELSE 0, flags % 256, (flags \div 256) % 256, 0, 0, 0, 0, 0>>

DecodeRelay(v) == [on |-> v[1] # 0, flags |-> v[2] + 256 * v[3]]

EncodeDimmer(brightness) == <<brightness % 256, 0, 0, 0, 0, 0, 0, 0>>

DecodeDimmer(v) == [brightness |-> v[1]]

(***************************************************************************)
(* World state operations.                                                 *)
(***************************************************************************)
\* state.get_device_id(guid): 0 stands for KeyError
get_device_id(guid) ==
  IF \E d \in Devices : DeviceCfg[d].guid = guid
  THEN CHOOSE d \in Devices : DeviceCfg[d].guid = guid
  ELSE 0

\* state.get_channel(channel_id) raises KeyError for an unknown id
ChannelExists(channel_id) == channel_id \in Channels

\* state.device_connected(device_id, proto_version, events) returns False when online
device_connected(d) == ~online[d]

\* state.client_connected(client_id, events) returns False when connected
client_connected(k) == ~clientOnline[k]

\* (variant: every registration creates a client)
MutAddClientAlwaysNew(guid) == Cardinality({g \in ClientGuids : clientIds[g] # 0}) + 1

\* state.add_client(guid): the id the guid has, or the next free one
add_client(guid) ==
  IF clientIds[guid] # 0 THEN clientIds[guid]
  ELSE Cardinality({g \in ClientGuids : clientIds[g] # 0}) + 1

\* Channel.last_value after state.set_channel_value(channel_id, value)
NewLastValue(ch, v, old) ==
  IF ChannelCfg[ch].type = "DIMMER" /\ DecodeDimmer(v).brightness # 0 THEN v ELSE old

(***************************************************************************)
(* register_device: validation of the registration message.                *)
(***************************************************************************)
\* the channel ids of a device, in the order the channels were added
DeviceChannelIds(device_id) ==
  SelectSeq([id \in 1..Len(channelTable) |-> id],
            LAMBDA id : channelTable[id].device_id = device_id)

\* (variant: the loop body without the function check)
MutChannelErrorNoFunc(number, channel_id, channel_msg) ==
  IF number # channel_msg.number THEN "incorrect channel number"
  ELSE IF channelTable[channel_id].type # channel_msg.type THEN "incorrect type"
  ELSE ""

\* the per-channel checks of the loop body; "" when the channel passes
ChannelError(number, channel_id, channel_msg) ==
  IF number # channel_msg.number THEN "incorrect channel number"
  ELSE IF channelTable[channel_id].type # channel_msg.type THEN "incorrect type"
  ELSE IF channelTable[channel_id].func # channel_msg.default_func THEN "incorrect function"
  ELSE ""

\* the loop over enumerate(zip(channels, msg.channels)): the first error breaks
RECURSIVE LoopError(_, _, _)
LoopError(channels, msgChannels, i) ==
  IF i > Min(Len(channels), Len(msgChannels)) THEN ""
  ELSE LET e == ChannelError(i - 1, channels[i], msgChannels[i])
       IN IF e # "" THEN e ELSE LoopError(channels, msgChannels, i + 1)

\* the error of the channel list, "" for None
ChannelsError(d, msg) ==
  LET channels == DeviceChannelIds(d)
      lenErr == IF Len(msg.channels) # Len(channels)
                THEN "incorrect number of channels" ELSE ""
      loopErr == LoopError(channels, msg.channels, 1)
  IN IF loopErr # "" THEN loopErr ELSE lenErr

\* the reason register_device rejects msg before it touches the state, "" if none
ValidationError(msg) ==
  LET d == get_device_id(msg.guid)
  IN IF d = 0 THEN "device not found"
     ELSE IF DeviceCfg[d].manufacturer_id # msg.manufacturer_id THEN "manufacturer id mismatch"
     ELSE IF DeviceCfg[d].product_id # msg.product_id THEN "product id mismatch"
     ELSE ChannelsError(d, msg)

\* register_device accepts msg: validation passed and device_connected returned True
\* (variant: the result of device_connected ignored)
MutAcceptsWhileOnline(msg) == ValidationError(msg) = ""

RegisterDeviceAccepts(msg) ==
  /\ ValidationError(msg) = ""
  /\ device_connected(get_device_id(msg.guid))

\* the events register_device adds to server.events on success, in order
RECURSIVE RegisterValueEvents(_, _, _)
RegisterValueEvents(d, msg, i) ==
  IF i > Len(msg.channels) THEN <<>>
  ELSE <<Event("CHANNEL_REGISTER_VALUE",
               <<DeviceChannelIds(d)[i], msg.channels[i].value>>)>>
       \o RegisterValueEvents(d, msg, i + 1)

\* (variant: DEVICE_CONNECTED ahead of the channel values)
MutEventsConnectedFirst(d, msg) ==
  <<Event("DEVICE_CONNECTED", <<d>>)>> \o RegisterValueEvents(d, msg, 1)

RegisterDeviceEvents(d, msg) ==
  RegisterValueEvents(d, msg, 1) \o <<Event("DEVICE_CONNECTED", <<d>>)>>

\* proto.TSD_RegisterDeviceResult
RegisterDeviceResultWith(code, activity_timeout) ==
  [call |-> "SD_REGISTER_DEVICE_RESULT", result_code |-> code,
   activity_timeout |-> activity_timeout]

\* (variant: the result with the maximum activity timeout)
MutRegisterResultMax(code) == RegisterDeviceResultWith(code, ACTIVITY_TIMEOUT_MAX)

\* the result with the minimum activity timeout: every negative result, and the
\* positive one of a connection that never set its activity timeout
RegisterDeviceResult(code) == RegisterDeviceResultWith(code, ACTIVITY_TIMEOUT_MIN)

(***************************************************************************)
(* Registration messages the peers send (proto.TDS_RegisterDevice_E).      *)
(***************************************************************************)
ValidChannels(d, vals) ==
  [i \in 1..Len(DeviceCfg[d].channel_ids) |->
     LET ch == ChannelCfg[DeviceCfg[d].channel_ids[i]]
     IN [number |-> i - 1, type |-> ch.type, default_func |-> ch.func,
         flags |-> ch.flags, value |-> vals[i]]]

ValidRegister(d, vals) ==
  [guid |-> DeviceCfg[d].guid, manufacturer_id |-> DeviceCfg[d].manufacturer_id,
   product_id |-> DeviceCfg[d].product_id, channels |-> ValidChannels(d, vals)]

\* the initial values a device reports, per channel
ZeroValues(d) == [i \in 1..Len(DeviceCfg[d].channel_ids) |-> Zero8]
MixedValues(d) == [i \in 1..Len(DeviceCfg[d].channel_ids) |->
                     IF i = 1 THEN Bytes8 ELSE IF i = 2 THEN On8 ELSE Even8]

ValidRegisters ==
  {ValidRegister(d, ZeroValues(d)) : d \in Devices}
  \cup {ValidRegister(d, MixedValues(d)) : d \in Devices}

\* one field of a valid message changed to a value the configuration does not have
InvalidRegisters(d) ==
  LET m == ValidRegister(d, ZeroValues(d))
      n == Len(m.channels)
  IN {[m EXCEPT !.guid = UnknownGuid],
      [m EXCEPT !.manufacturer_id = 16],
      [m EXCEPT !.product_id = 42],
      [m EXCEPT !.channels = SubSeq(m.channels, 1, n - 1)],
      [m EXCEPT !.channels = m.channels \o <<m.channels[n]>>]}
     \cup {[m EXCEPT !.channels[i].number = 10] : i \in 1..n}
     \cup {[m EXCEPT !.channels[i].type = "HUMIDITYSENSOR"] : i \in 1..n}
     \cup {[m EXCEPT !.channels[i].default_func = "LIGHTSWITCH"] : i \in 1..n}

\* only the flags of one channel changed
FlagsRegisters(d) ==
  LET m == ValidRegister(d, ZeroValues(d))
  IN {[m EXCEPT !.channels[i].flags = OtherFlags] : i \in 1..Len(m.channels)}

(***************************************************************************)
(* Packet stream: framing of packets on the byte stream of a connection.   *)
(***************************************************************************)
\* proto.PROTO_VERSION, the version the server frames its packets with
PROTO_VERSION == 23

\* b"SUPLA"
SUPLA_TAG == <<83, 85, 80, 76, 65>>

\* the numbers of the call ids the model frames (proto.Call)
CallNumber ==
  [DCS_PING_SERVER |-> 40, SDC_PING_SERVER_RESULT |-> 50, SD_CHANNEL_SET_VALUE |-> 110,
   SC_SUPERUSER_AUTHORIZATION_RESULT |-> 350]

CallNumbers == {CallNumber[n] : n \in DOMAIN CallNumber}

\* an unsigned 32 bit integer as four bytes, least significant first, and back
U32(n) == <<n % 256, (n \div 256) % 256, (n \div 65536) % 256, (n \div 16777216) % 256>>
FromU32(b) == b[1] + 256 * b[2] + 65536 * b[3] + 16777216 * b[4]

\* encoding.encode(proto.DataPacket(version, rr_id, call_id, data))
Frame(version, rr_id, call_id, data) ==
  SUPLA_TAG \o <<version>> \o U32(rr_id) \o U32(call_id) \o U32(Len(data)) \o data
    \o SUPLA_TAG

HEADER_SIZE == 18

RecvWait == [status |-> "wait"]
NetworkError(message) == [status |-> "error", error |-> message]
RecvPacket(call_id, data, size) ==
  [status |-> "packet", call_id |-> call_id, data |-> data, size |-> size]

\* PacketStream.recv on the bytes buffered so far
\* (variant: the end tag is skipped unread)
MutRecvEndTagUnread(bytes, min_version) ==
  IF Len(bytes) < Len(SUPLA_TAG) THEN RecvWait
  ELSE IF SubSeq(bytes, 1, 5) # SUPLA_TAG THEN NetworkError("incorrect start tag")
  ELSE IF Len(bytes) < HEADER_SIZE THEN RecvWait
  ELSE IF FromU32(SubSeq(bytes, 11, 14)) \notin CallNumbers
  THEN NetworkError("failed to decode header")
  ELSE IF bytes[6] < min_version THEN NetworkError("proto version not supported")
  ELSE LET size == FromU32(SubSeq(bytes, 15, 18))
       IN IF Len(bytes) < HEADER_SIZE + size + Len(SUPLA_TAG) THEN RecvWait
          ELSE RecvPacket(FromU32(SubSeq(bytes, 11, 14)),
                          SubSeq(bytes, HEADER_SIZE + 1, HEADER_SIZE + size),
                          HEADER_SIZE + size + Len(SUPLA_TAG))

Recv(bytes, min_version) ==
  IF Len(bytes) < Len(SUPLA_TAG) THEN RecvWait
  ELSE IF SubSeq(bytes, 1, 5) # SUPLA_TAG THEN NetworkError("incorrect start tag")
  ELSE IF Len(bytes) < HEADER_SIZE THEN RecvWait
  ELSE IF FromU32(SubSeq(bytes, 11, 14)) \notin CallNumbers
  THEN NetworkError("failed to decode header")
  ELSE IF bytes[6] < min_version THEN NetworkError("proto version not supported")
  ELSE LET size == FromU32(SubSeq(bytes, 15, 18))
           end == HEADER_SIZE + size
       IN IF Len(bytes) < end + Len(SUPLA_TAG) THEN RecvWait
          ELSE IF SubSeq(bytes, end + 1, end + 5) # SUPLA_TAG
          THEN NetworkError("incorrect end tag")
          ELSE RecvPacket(FromU32(SubSeq(bytes, 11, 14)),
                          SubSeq(bytes, HEADER_SIZE + 1, end), end + Len(SUPLA_TAG))

\* the tasks of a connection that send on its stream
Senders == {"reader", "events"}

\* a stream nothing was written to: the version it accepts at least, the bytes
\* buffered for recv, what recv returned, whether it raised, the holder of the
\* send mutex, each sender's position in send, the packets whose send completed,
\* whether a recv call is waiting, and the bytes of the peer still on their way
IdleStream ==
  [min_version |-> 1, wire |-> <<>>, received |-> <<>>, failed |-> FALSE, lock |-> "",
   senders |-> [s \in Senders |-> [pc |-> "idle", packet |-> <<>>, written |-> 0]],
   number |-> 0, sent |-> <<>>, reading |-> FALSE, unsent |-> <<>>]

(***************************************************************************)
(* Wire codec (encoding.py): records are encoded field by field in the     *)
(* declared order; a variable-length member has a size field, immediately  *)
(* before it or at an offset from it.  A message is a record of its field  *)
(* values, a string the sequence of its non-zero bytes.                    *)
(***************************************************************************)
MaxItems == 3

Field(name, kind) ==
  [name |-> name, kind |-> kind, width |-> 0, signed |-> TRUE, members |-> {},
   size |-> 0, max_size |-> 0, null_terminated |-> TRUE, item |-> "",
   size_width |-> 2, size_field_offset |-> 0]

c_int32(name) == [Field(name, "int") EXCEPT !.width = 4]

c_enum(name, width, members) ==
  [Field(name, "enum") EXCEPT !.width = width, !.members = members]

c_bytes(name, size, max_size) ==
  [Field(name, "bytes") EXCEPT !.size = size, !.max_size = max_size]

c_string(name, size, max_size, null_terminated) ==
  [Field(name, "string") EXCEPT !.size = size, !.max_size = max_size,
                                !.null_terminated = null_terminated]

c_packed_array(name, item, size_field_offset, max_size) ==
  [Field(name, "array") EXCEPT !.item = item, !.max_size = max_size,
                               !.size_field_offset = size_field_offset]

c_record(name, item) == [Field(name, "record") EXCEPT !.item = item]

MyEnum == {1, 2}
MyFlag == 0..7

MessageTypes ==
  {"Int32Message", "EnumMessage", "FlagMessage", "FixedBytesMessage",
   "VariableBytesMessage", "FixedStringMessage", "NullTerminatedVariableStringMessage",
   "NotNullTerminatedVariableStringMessage", "NestedMessage", "PackedArrayMessage",
   "PackedArrayWithFieldOffsetMessage"}

\* the declared fields of the record types
Declared(typ) ==
  CASE typ = "Int32Message" -> <<c_int32("x")>>
    [] typ = "EnumMessage" -> <<c_enum("x", 2, MyEnum)>>
    [] typ = "FlagMessage" -> <<c_enum("x", 2, MyFlag)>>
    [] typ = "FixedBytesMessage" -> <<c_bytes("x", 10, 0)>>
    [] typ = "VariableBytesMessage" -> <<c_bytes("x", 0, 10)>>
    [] typ = "FixedStringMessage" -> <<c_string("x", 10, 0, TRUE)>>
    [] typ = "NullTerminatedVariableStringMessage" -> <<c_string("x", 0, 10, TRUE)>>
    [] typ = "NotNullTerminatedVariableStringMessage" -> <<c_string("x", 0, 10, FALSE)>>
    [] typ = "NestedMessage" ->
         <<c_record("x", "Int32Message"), c_record("y", "FixedStringMessage")>>
    [] typ = "PackedArrayMessage" -> <<c_packed_array("x", "Int32Message", 0, 10)>>
    [] typ = "PackedArrayWithFieldOffsetMessage" ->
         <<c_int32("x"), c_packed_array("y", "Int32Message", -1, 10)>>

\* a member with a size field: one that has no fixed size
HasSizeField(f) == f.kind = "array" \/ (f.kind \in {"bytes", "string"} /\ f.size = 0)

InsertAt(seq, i, e) == SubSeq(seq, 1, i - 1) \o <<e>> \o SubSeq(seq, i, Len(seq))

\* the fields on the wire: the declared ones, and the size field of each
\* variable-length member at its offset before the member
RECURSIVE WireFields(_, _, _)
WireFields(declared, i, acc) ==
  IF i > Len(declared) THEN acc
  ELSE LET f == declared[i]
           placed == IF HasSizeField(f)
                     THEN InsertAt(acc, Len(acc) + 1 + f.size_field_offset,
                                   [size_for |-> f.name, f |-> f])
                     ELSE acc
       IN WireFields(declared, i + 1, Append(placed, [size_for |-> "", f |-> f]))

fields(typ) == WireFields(Declared(typ), 1, <<>>)

\* little-endian two's complement of the given width
RECURSIVE EncodeInt(_, _)
EncodeInt(n, width) ==
  IF width = 0 THEN <<>> ELSE <<n % 256>> \o EncodeInt(n \div 256, width - 1)

RECURSIVE Unsigned(_)
Unsigned(bytes) ==
  IF bytes = <<>> THEN 0 ELSE bytes[1] + 256 * Unsigned(Tail(bytes))

\* the top byte carries the sign
RECURSIVE Signed(_)
Signed(bytes) ==
  IF Len(bytes) = 1 THEN IF bytes[1] >= 128 THEN bytes[1] - 256 ELSE bytes[1]
  ELSE bytes[1] + 256 * Signed(Tail(bytes))

DecodeInt(bytes, signed) == IF signed THEN Signed(bytes) ELSE Unsigned(bytes)

RECURSIVE PadZeros(_, _)
PadZeros(bytes, size) == IF Len(bytes) >= size THEN bytes ELSE PadZeros(Append(bytes, 0), size)

\* the string in a buffer
\* (variant: all bytes of the buffer are the string)
MutDecodeStringRaw(bytes) == bytes

RECURSIVE UpToNull(_)
UpToNull(bytes) ==
  IF bytes = <<>> \/ bytes[1] = 0 THEN <<>> ELSE <<bytes[1]>> \o UpToNull(Tail(bytes))

\* the string in a buffer: the bytes before the first zero byte
DecodeString(bytes) == UpToNull(bytes)

\* the number a size field holds for a value
SizeOf(f, v) == IF f.kind = "string" /\ f.null_terminated THEN Len(v) + 1 ELSE Len(v)

RECURSIVE EncodeValue(_, _), EncodeItems(_, _), EncodeFields(_, _, _)
EncodeValue(f, v) ==
  CASE f.kind \in {"int", "enum"} -> EncodeInt(v, f.width)
    [] f.kind = "bytes" -> IF f.size > 0 THEN PadZeros(v, f.size) ELSE v
    [] f.kind = "string" ->
         IF f.size > 0 THEN PadZeros(v, f.size)
         ELSE IF f.null_terminated THEN Append(v, 0) ELSE v
    [] f.kind = "record" -> EncodeFields(fields(f.item), v, 1)
    [] f.kind = "array" -> EncodeItems(f.item, v)

EncodeItems(item, vs) ==
  IF vs = <<>> THEN <<>>
  ELSE EncodeFields(fields(item), Head(vs), 1) \o EncodeItems(item, Tail(vs))

EncodeFields(wire, msg, i) ==
  IF i > Len(wire) THEN <<>>
  ELSE LET w == wire[i]
       IN (IF w.size_for # ""
           THEN EncodeInt(SizeOf(w.f, msg[w.size_for]), w.f.size_width)
           ELSE EncodeValue(w.f, msg[w.f.name]))
          \o EncodeFields(wire, msg, i + 1)

encode(typ, msg) == EncodeFields(fields(typ), msg, 1)

MalformedError == [status |-> "malformed"]

Decoded(value, size) == [status |-> "ok", msg |-> value, size |-> size]

\* n: the number the size field of the member held
RECURSIVE DecodeValue(_, _, _), DecodeItems(_, _, _, _), DecodeFields(_, _, _, _, _, _)
DecodeValue(f, bytes, n) ==
  LET fixed(size) == IF Len(bytes) < size THEN MalformedError
                     ELSE Decoded(SubSeq(bytes, 1, size), size)
      text(r) == IF r.status = "ok" THEN Decoded(DecodeString(r.msg), r.size) ELSE r
  IN CASE f.kind = "int" ->
            IF Len(bytes) < f.width THEN MalformedError
            ELSE Decoded(DecodeInt(SubSeq(bytes, 1, f.width), f.signed), f.width)
       [] f.kind = "enum" ->
            IF Len(bytes) < f.width THEN MalformedError
            ELSE LET v == DecodeInt(SubSeq(bytes, 1, f.width), f.signed)
                 IN IF v \in f.members THEN Decoded(v, f.width) ELSE MalformedError
       [] f.kind = "bytes" ->
            IF f.size > 0 THEN fixed(f.size)
            ELSE IF n > f.max_size THEN MalformedError ELSE fixed(n)
       [] f.kind = "string" ->
            IF f.size > 0 THEN text(fixed(f.size))
            ELSE IF n > f.max_size THEN MalformedError
            ELSE IF f.null_terminated THEN text(fixed(n)) ELSE fixed(n)
       [] f.kind = "record" -> DecodeFields(fields(f.item), bytes, 1, 0, <<>>, <<>>)
       [] f.kind = "array" ->
            IF n > f.max_size THEN MalformedError ELSE DecodeItems(f.item, bytes, n, <<>>)

DecodeItems(item, bytes, n, acc) ==
  IF n = 0 THEN Decoded(acc, 0)
  ELSE LET r == DecodeFields(fields(item), bytes, 1, 0, <<>>, <<>>)
       IN IF r.status # "ok" THEN r
          ELSE LET rest == DecodeItems(item, SubSeq(bytes, r.size + 1, Len(bytes)), n - 1,
                                       Append(acc, r.msg))
               IN IF rest.status # "ok" THEN rest ELSE Decoded(rest.msg, r.size + rest.size)

\* sizes: the size fields read so far, as pairs of member name and number;
\* acc: the members decoded so far, as pairs of name and value
DecodeFields(wire, bytes, i, offset, sizes, acc) ==
  IF i > Len(wire)
  THEN Decoded([name \in {acc[k][1] : k \in 1..Len(acc)} |->
                  LET k == CHOOSE k \in 1..Len(acc) : acc[k][1] = name IN acc[k][2]],
               offset)
  ELSE LET w == wire[i]
           rest == SubSeq(bytes, offset + 1, Len(bytes))
       IN IF w.size_for # ""
          THEN IF Len(rest) < w.f.size_width THEN MalformedError
               ELSE DecodeFields(wire, bytes, i + 1, offset + w.f.size_width,
                                 Append(sizes, <<w.size_for,
                                                 DecodeInt(SubSeq(rest, 1, w.f.size_width), TRUE)>>),
                                 acc)
          ELSE LET n == IF HasSizeField(w.f)
                        THEN LET k == CHOOSE k \in 1..Len(sizes) : sizes[k][1] = w.f.name
                             IN sizes[k][2]
                        ELSE 0
                   r == DecodeValue(w.f, rest, n)
               IN IF r.status # "ok" THEN r
                  ELSE DecodeFields(wire, bytes, i + 1, offset + r.size, sizes,
                                    Append(acc, <<w.f.name, r.msg>>))

decode(typ, bytes) == DecodeFields(fields(typ), bytes, 1, 0, <<>>, <<>>)

\* the sequences of at most n members of a set
RECURSIVE SeqsUpTo(_, _)
SeqsUpTo(S, n) ==
  IF n = 0 THEN {<<>>}
  ELSE LET shorter == SeqsUpTo(S, n - 1)
       IN shorter \cup {Append(q, e) : q \in shorter, e \in S}

Foobar == <<102, 111, 111, 98, 97, 114>>

Strings == {<<>>, <<102>>, <<102, 111, 111>>, Foobar}

\* the valid messages of a type the encodings are checked for
Instances(typ) ==
  CASE typ = "Int32Message" -> {[x |-> n] : n \in {0, 66, -1, 2147483647, -2147483647 - 1}}
    [] typ = "EnumMessage" -> {[x |-> n] : n \in MyEnum}
    [] typ = "FlagMessage" -> {[x |-> n] : n \in MyFlag}
    [] typ = "FixedBytesMessage" ->
         {[x |-> b] : b \in {PadZeros(Foobar, 10), PadZeros(<<>>, 10),
                             <<0, 1, 2, 3, 4, 5, 6, 7, 8, 255>>}}
    [] typ = "VariableBytesMessage" -> {[x |-> b] : b \in Strings \cup SeqsUpTo({0, 255}, 2)}
    [] typ \in {"FixedStringMessage", "NullTerminatedVariableStringMessage",
                "NotNullTerminatedVariableStringMessage"} -> {[x |-> s] : s \in Strings}
    [] typ = "NestedMessage" ->
         {[x |-> [x |-> n], y |-> [x |-> s]] : n \in {66, -1}, s \in Strings}
    [] typ = "PackedArrayMessage" -> {[x |-> a] : a \in SeqsUpTo({[x |-> n] : n \in 1..3}, MaxItems)}
    [] typ = "PackedArrayWithFieldOffsetMessage" ->
         {[x |-> n, y |-> a] : n \in {66, -1}, a \in SeqsUpTo({[x |-> n] : n \in 1..3}, MaxItems)}

\* a message is encoded and the bytes are decoded as a message of its type
EncodeDecode(typ, msg) ==
  LET data == encode(typ, msg)
  IN /\ last' = [op |-> "codec", conn |-> 0, typ |-> typ, msg |-> msg, data |-> data,
                 decoded |-> decode(typ, data)]
     /\ UNCHANGED <<stateVars, connVars, queue, serverEvents, dispatch, activity, stream, channelTable,
                    outbox, calls>>

(***************************************************************************)
(* World state set-up (state.add_channel, state.get_channel_by_name).      *)
(***************************************************************************)
\* state.add_channel(device_id, name, ...): the channel gets the next id; a
\* name that another channel has is stored as well (setup_server names a
\* channel of device-5 "relay" after one of device-1)
add_channel(device_id, name, type, func) ==
  /\ channelTable' = Append(channelTable, [device_id |-> device_id, name |-> name,
                                           type |-> type, func |-> func])
  /\ last' = [op |-> "add_channel", conn |-> 0, name |-> name,
              result |-> Len(channelTable) + 1]
  /\ UNCHANGED <<stateVars, connVars, queue, serverEvents, dispatch, activity, stream,
                 outbox, calls>>

\* state.get_channel_by_name(name): the first channel of that name (id 2 for
\* "thermometer", though a channel of device-5 has the name too)
ChannelByName(name) ==
  IF \E id \in 1..Len(channelTable) : channelTable[id].name = name
  THEN CHOOSE id \in 1..Len(channelTable) :
         /\ channelTable[id].name = name
         /\ \A other \in 1..(id - 1) : channelTable[other].name # name
  ELSE "KeyError"

get_channel_by_name(name) ==
  /\ last' = [op |-> "get_channel_by_name", conn |-> 0, name |-> name,
              result |-> ChannelByName(name)]
  /\ UNCHANGED <<stateVars, connVars, queue, serverEvents, dispatch, activity, stream,
                 channelTable, outbox, calls>>

(***************************************************************************)
(* Connection runtime.                                                     *)
(***************************************************************************)

\* a connection's context.activity_timeout before any DCS_SET_ACTIVITY_TIMEOUT, and
\* no time passed since its last packet
FreshActivity == [timeout |-> ACTIVITY_TIMEOUT_MIN, idle |-> 0]

\* the worker of an event queue before it took an event: cur is the event being
\* handled (<<>>: none), done the number of its handlers that finished, running
\* whether a handler is executing, log the handler starts and finishes so far,
\* added the ids of the events added so far
IdleDispatch == [cur |-> <<>>, done |-> 0, running |-> FALSE, log |-> <<>>, added |-> <<>>]

\* the state after construction of a server whose world has the given channels
InitWith(table) ==
  /\ channelTable = table
  /\ online = [d \in Devices |-> FALSE]
  /\ devEvents = [d \in Devices |-> 0]
  /\ chValue = [ch \in Channels |-> Zero8]
  /\ lastValue = [ch \in Channels |-> <<>>]
  /\ clientIds = [g \in ClientGuids |-> 0]
  /\ clientOnline = [k \in 1..Cardinality(ClientGuids) |-> FALSE]
  /\ cliEvents = [k \in 1..Cardinality(ClientGuids) |-> 0]
  /\ authorized = [k \in 1..Cardinality(ClientGuids) |-> FALSE]
  /\ connState = [c \in Conns |-> "idle"]
  /\ ctxKind = [c \in Conns |-> "base"]
  /\ ctxId = [c \in Conns |-> 0]
  /\ error = [c \in Conns |-> FALSE]
  /\ queue = [c \in Conns |-> <<>>]
  /\ serverEvents = <<>>
  /\ dispatch = IdleDispatch
  /\ activity = [c \in Conns |-> FreshActivity]
  /\ stream = IdleStream
  /\ outbox = [c \in Conns |-> <<>>]
  /\ last = [op |-> "init", conn |-> 0]
  /\ calls = 0

Init == InitWith(ConfiguredChannels)

ConnOpen(c) == connState[c] = "open"

\* the server accepts a TCP connection: a fresh context and event queue
\* (connections are numbered in the order they are accepted)
Accept(c) ==
  /\ connState[c] = "idle"
  /\ \A b \in Conns : b < c => connState[b] # "idle"
  /\ connState' = [connState EXCEPT ![c] = "open"]
  /\ last' = [op |-> "accept", conn |-> c]
  /\ UNCHANGED <<stateVars, dispatch, stream, channelTable, ctxKind, ctxId, error, queue, serverEvents, outbox, calls,
                 activity>>

\* the reader loop of c can take a packet: it ends once context.error is set
CanReceive(c) == ConnOpen(c) /\ ~error[c] /\ calls < MaxCalls

\* the reader loop of c received a packet: its watchdog window starts again
Received(c) == activity' = [activity EXCEPT ![c].idle = 0]

Send(c, msgs) == outbox' = [outbox EXCEPT ![c] = outbox[c] \o msgs]

\* the connection ends (peer EOF, timeout, or the server closing an errored one)
CloseConnection(c) ==
  /\ ConnOpen(c)
  /\ connState' = [connState EXCEPT ![c] = "closed"]
  /\ queue' = [queue EXCEPT ![c] = <<>>]
  /\ IF ctxKind[c] = "device"
     THEN /\ online' = [online EXCEPT ![ctxId[c]] = FALSE]
          /\ devEvents' = [devEvents EXCEPT ![ctxId[c]] = 0]
          /\ serverEvents' = Append(serverEvents, Event("DEVICE_DISCONNECTED", <<ctxId[c]>>))
          /\ UNCHANGED <<clientOnline, cliEvents>>
     ELSE IF ctxKind[c] = "client"
     THEN /\ clientOnline' = [clientOnline EXCEPT ![ctxId[c]] = FALSE]
          /\ cliEvents' = [cliEvents EXCEPT ![ctxId[c]] = 0]
          /\ serverEvents' = Append(serverEvents, Event("CLIENT_DISCONNECTED", <<ctxId[c]>>))
          /\ UNCHANGED <<online, devEvents>>
     ELSE UNCHANGED <<online, devEvents, clientOnline, cliEvents, serverEvents>>
  /\ last' = [op |-> "close", conn |-> c, by_server |-> error[c]]
  /\ UNCHANGED <<chValue, lastValue, clientIds, authorized, dispatch, stream, channelTable, ctxKind, ctxId, error, outbox, calls,
                 activity>>

(***************************************************************************)
(* DS_REGISTER_DEVICE_E                                                    *)
(***************************************************************************)
RegisterDevice(c, msg) ==
  /\ CanReceive(c)
  /\ calls' = calls + 1
  /\ Received(c)
  /\ IF RegisterDeviceAccepts(msg)
     THEN LET d == get_device_id(msg.guid)
              ids == DeviceChannelIds(d)
          IN /\ online' = [online EXCEPT ![d] = TRUE]
             /\ devEvents' = [devEvents EXCEPT ![d] = c]
             /\ ctxKind' = [ctxKind EXCEPT ![c] = "device"]
             /\ ctxId' = [ctxId EXCEPT ![c] = d]
             /\ chValue' = [ch \in Channels |->
                             IF InSeq(ids, ch) /\ IndexOf(ids, ch) < Len(msg.channels)
                             THEN msg.channels[IndexOf(ids, ch) + 1].value
                             ELSE chValue[ch]]
             /\ lastValue' = [ch \in Channels |->
                               NewLastValue(ch, chValue'[ch], lastValue[ch])]
             /\ serverEvents' = serverEvents \o RegisterDeviceEvents(d, msg)
             /\ Send(c, <<RegisterDeviceResultWith("TRUE", activity[c].timeout)>>)
             /\ last' = [op |-> "register_device", conn |-> c, msg |-> msg,
                         result_code |-> "TRUE"]
             /\ UNCHANGED error
     ELSE /\ error' = [error EXCEPT ![c] = TRUE]
          /\ Send(c, <<RegisterDeviceResult("FALSE")>>)
          /\ last' = [op |-> "register_device", conn |-> c, msg |-> msg,
                      result_code |-> "FALSE"]
          /\ UNCHANGED <<online, devEvents, ctxKind, ctxId, chValue, lastValue, serverEvents>>
  /\ UNCHANGED <<clientIds, clientOnline, cliEvents, authorized, dispatch, stream, channelTable, connState, queue>>

(***************************************************************************)
(* DS_DEVICE_CHANNEL_VALUE_CHANGED                                         *)
(***************************************************************************)
\* _device_channel_value_changed raises (no device_id on the context, or
\* channel_ids[channel_number] out of range) instead of returning
ValueChangedRaises(c, channel_number) ==
  \/ ctxKind[c] # "device"
  \/ channel_number >= Len(DeviceCfg[ctxId[c]].channel_ids)

\* the events _device_channel_value_changed adds to server.events
ValueChangedEvents(channel_id, value) ==
  <<Event("CHANNEL_VALUE_CHANGED", <<channel_id, value>>)>>

DeviceChannelValueChanged(c, channel_number, value) ==
  /\ CanReceive(c)
  /\ calls' = calls + 1
  /\ Received(c)
  /\ IF ValueChangedRaises(c, channel_number)
     THEN /\ error' = [error EXCEPT ![c] = TRUE]
          /\ last' = [op |-> "value_changed", conn |-> c, raised |-> TRUE]
          /\ UNCHANGED <<chValue, lastValue, serverEvents>>
     ELSE LET channel_id == DeviceCfg[ctxId[c]].channel_ids[channel_number + 1]
          IN /\ chValue' = [chValue EXCEPT ![channel_id] = value]
             /\ lastValue' = [lastValue EXCEPT
                               ![channel_id] = NewLastValue(channel_id, value, @)]
             /\ serverEvents' = serverEvents \o ValueChangedEvents(channel_id, value)
             /\ last' = [op |-> "value_changed", conn |-> c, raised |-> FALSE,
                         channel_id |-> channel_id, channel_number |-> channel_number,
                         value |-> value]
             /\ UNCHANGED error
  /\ UNCHANGED <<online, devEvents, clientIds, clientOnline, cliEvents, authorized, dispatch, stream, channelTable,
                 connState, ctxKind, ctxId, queue, outbox>>

(***************************************************************************)
(* CS_REGISTER_CLIENT_D                                                    *)
(***************************************************************************)
\* proto.TSC_RegisterClientResult_D
RegisterClientResultWith(code, client_id, activity_timeout) ==
  [call |-> "SC_REGISTER_CLIENT_RESULT_D", result_code |-> code, client_id |-> client_id,
   location_count |-> 1, channel_count |-> Len(channelTable),
   activity_timeout |-> activity_timeout]

\* the result of a connection that never set its activity timeout
RegisterClientResult(code, client_id) ==
  RegisterClientResultWith(code, client_id, ACTIVITY_TIMEOUT_MIN)

\* register_client goes on: client_connected returned True
\* (variant: the result of client_connected ignored)
MutClientAcceptsWhileOnline(client_id) == TRUE

RegisterClientAccepts(client_id) == client_connected(client_id)

\* the events register_client adds to the connection's own queue, in order
\* (variant: SEND_CHANNELS ahead of SEND_LOCATIONS)
MutClientEventsSwapped ==
  <<Event("SEND_CHANNELS", <<>>), Event("SEND_LOCATIONS", <<>>), Event("SEND_SCENES", <<>>)>>

RegisterClientEvents ==
  <<Event("SEND_LOCATIONS", <<>>), Event("SEND_CHANNELS", <<>>), Event("SEND_SCENES", <<>>)>>

RegisterClient(c, guid) ==
  LET client_id == add_client(guid)
  IN /\ CanReceive(c)
     /\ calls' = calls + 1
     /\ Received(c)
     /\ clientIds' = [clientIds EXCEPT ![guid] = client_id]
     /\ IF RegisterClientAccepts(client_id)
        THEN /\ clientOnline' = [clientOnline EXCEPT ![client_id] = TRUE]
             /\ cliEvents' = [cliEvents EXCEPT ![client_id] = c]
             /\ ctxKind' = [ctxKind EXCEPT ![c] = "client"]
             /\ ctxId' = [ctxId EXCEPT ![c] = client_id]
             /\ serverEvents' = Append(serverEvents, Event("CLIENT_CONNECTED", <<client_id>>))
             /\ queue' = [queue EXCEPT ![c] = queue[c] \o RegisterClientEvents]
             /\ Send(c, <<RegisterClientResultWith("TRUE", client_id, activity[c].timeout)>>)
             /\ last' = [op |-> "register_client", conn |-> c, guid |-> guid,
                         client_id |-> client_id, result_code |-> "TRUE"]
             /\ UNCHANGED error
        ELSE /\ error' = [error EXCEPT ![c] = TRUE]
             /\ Send(c, <<RegisterClientResultWith("FALSE", client_id, activity[c].timeout)>>)
             /\ last' = [op |-> "register_client", conn |-> c, guid |-> guid,
                         client_id |-> client_id, result_code |-> "FALSE"]
             /\ UNCHANGED <<clientOnline, cliEvents, ctxKind, ctxId, serverEvents, queue>>
     /\ UNCHANGED <<online, devEvents, chValue, lastValue, authorized, dispatch, stream, channelTable, connState>>

(***************************************************************************)
(* CS_EXECUTE_ACTION and CS_SET_VALUE                                      *)
(***************************************************************************)
\* the value client_execute_action computes for a channel, <<>> when it rejects
\* (variant: TURN_ON of a dimmer without the remembered value)
MutDimmerOnFull(channel_id, action_id) ==
  IF ChannelCfg[channel_id].type = "DIMMER"
  THEN IF action_id = "TURN_ON" THEN EncodeDimmer(100)
       ELSE IF action_id = "TURN_OFF" THEN EncodeDimmer(0)
       ELSE <<>>
  ELSE <<>>

\* (variant: an unsupported relay action taken as TURN_OFF)
MutOtherActionOff(channel_id, action_id) ==
  IF ChannelCfg[channel_id].type = "RELAY"
  THEN IF action_id = "TURN_ON" THEN EncodeRelay(TRUE, 0)
       ELSE IF action_id = "TOGGLE"
       THEN EncodeRelay(~DecodeRelay(chValue[channel_id]).on, 0)
       ELSE EncodeRelay(FALSE, 0)
  ELSE <<>>

\* (variant: TOGGLE without the negation)
MutToggleKeepsOn(channel_id, action_id) ==
  IF ChannelCfg[channel_id].type = "RELAY"
  THEN IF action_id = "TURN_ON" THEN EncodeRelay(TRUE, 0)
       ELSE IF action_id = "TURN_OFF" THEN EncodeRelay(FALSE, 0)
       ELSE IF action_id = "TOGGLE"
       THEN EncodeRelay(DecodeRelay(chValue[channel_id]).on, 0)
       ELSE <<>>
  ELSE <<>>

ActionValue(channel_id, action_id) ==
  IF ChannelCfg[channel_id].type = "RELAY"
  THEN IF action_id = "TURN_ON" THEN EncodeRelay(TRUE, 0)
       ELSE IF action_id = "TURN_OFF" THEN EncodeRelay(FALSE, 0)
       ELSE IF action_id = "TOGGLE"
       THEN EncodeRelay(~DecodeRelay(chValue[channel_id]).on, 0)
       ELSE <<>>
  ELSE IF ChannelCfg[channel_id].type = "DIMMER"
  THEN IF action_id = "TURN_ON"
       THEN IF lastValue[channel_id] # <<>> THEN lastValue[channel_id]
            ELSE EncodeDimmer(100)
       ELSE IF action_id = "TURN_OFF" THEN EncodeDimmer(0)
       ELSE <<>>
  ELSE <<>>

\* client_execute_action succeeds on msg
ActionAccepted(msg) ==
  /\ msg.subject_type = "CHANNEL"
  /\ ChannelExists(msg.subject_id)
  /\ ActionValue(msg.subject_id, msg.action_id) # <<>>

\* proto.TSC_ActionExecutionResult
ActionExecutionResult(code, msg) ==
  [call |-> "SC_ACTION_EXECUTION_RESULT", result_code |-> code, action_id |-> msg.action_id,
   subject_id |-> msg.subject_id, subject_type |-> msg.subject_type]

\* the events a successful set adds to server.events
SetValueEvents(channel_id, value) == <<Event("CHANNEL_SET_VALUE", <<channel_id, value>>)>>

ClientExecuteAction(c, msg) ==
  /\ CanReceive(c)
  /\ calls' = calls + 1
  /\ Received(c)
  /\ IF ActionAccepted(msg)
     THEN LET channel_id == msg.subject_id
              value == ActionValue(channel_id, msg.action_id)
          IN /\ chValue' = [chValue EXCEPT ![channel_id] = value]
             /\ lastValue' = [lastValue EXCEPT
                               ![channel_id] = NewLastValue(channel_id, value, @)]
             /\ serverEvents' = serverEvents \o SetValueEvents(channel_id, value)
             /\ Send(c, <<ActionExecutionResult("TRUE", msg)>>)
             /\ last' = [op |-> "execute_action", conn |-> c, msg |-> msg,
                         result_code |-> "TRUE", value |-> value,
                         old |-> chValue[channel_id]]
     ELSE /\ Send(c, <<ActionExecutionResult("FALSE", msg)>>)
          /\ last' = [op |-> "execute_action", conn |-> c, msg |-> msg,
                      result_code |-> "FALSE"]
          /\ UNCHANGED <<chValue, lastValue, serverEvents>>
  /\ UNCHANGED <<online, devEvents, clientIds, clientOnline, cliEvents, authorized, dispatch, stream, channelTable,
                 connVars, queue>>

\* client_set_value stores msg.value
\* (variant: without the check of the target)
MutSetValueAnyTarget(msg) == ChannelExists(msg.value_id)

SetValueAccepted(msg) == msg.target = "CHANNEL" /\ ChannelExists(msg.value_id)

ClientSetValue(c, msg) ==
  /\ CanReceive(c)
  /\ calls' = calls + 1
  /\ Received(c)
  /\ IF SetValueAccepted(msg)
     THEN /\ chValue' = [chValue EXCEPT ![msg.value_id] = msg.value]
          /\ lastValue' = [lastValue EXCEPT
                            ![msg.value_id] = NewLastValue(msg.value_id, msg.value, @)]
          /\ serverEvents' = serverEvents \o SetValueEvents(msg.value_id, msg.value)
     ELSE UNCHANGED <<chValue, lastValue, serverEvents>>
  /\ last' = [op |-> "set_value", conn |-> c, msg |-> msg, accepted |-> SetValueAccepted(msg)]
  /\ UNCHANGED <<online, devEvents, clientIds, clientOnline, cliEvents, authorized, dispatch, stream, channelTable,
                 connVars, queue, outbox>>

(***************************************************************************)
(* CS_GET_CHANNEL_CONFIG                                                   *)
(***************************************************************************)
\* channel.config is a GeneralPurposeMeasurementChannelConfig: the channels of
\* devices 1 and 2 are added without config
HasMeasurementConfig(channel_id) == FALSE

\* proto.TSC_ChannelConfigUpdateOrResult
ChannelConfigResult(msg) ==
  IF ~ChannelExists(msg.channel_id)
  THEN [call |-> "SC_CHANNEL_CONFIG_UPDATE_OR_RESULT", result |-> "FALSE",
        channel_id |-> msg.channel_id, func |-> "NONE", config |-> <<>>]
  ELSE [call |-> "SC_CHANNEL_CONFIG_UPDATE_OR_RESULT",
        result |-> IF HasMeasurementConfig(msg.channel_id) THEN "TRUE" ELSE "FALSE",
        channel_id |-> msg.channel_id, func |-> ChannelCfg[msg.channel_id].func,
        config |-> IF HasMeasurementConfig(msg.channel_id)
                   THEN <<"GeneralPurposeMeasurement">> ELSE <<>>]

ClientGetChannelConfig(c, msg) ==
  /\ CanReceive(c)
  /\ calls' = calls + 1
  /\ Received(c)
  /\ Send(c, <<ChannelConfigResult(msg)>>)
  /\ last' = [op |-> "get_channel_config", conn |-> c, msg |-> msg]
  /\ UNCHANGED <<stateVars, dispatch, stream, channelTable, connVars, queue, serverEvents>>

(***************************************************************************)
(* CS_GET_NEXT                                                             *)
(***************************************************************************)
\* client_get_next: the handler body is pass; nothing is sent or queued
ClientGetNext(c) ==
  /\ CanReceive(c)
  /\ calls' = calls + 1
  /\ Received(c)
  /\ last' = [op |-> "get_next", conn |-> c]
  /\ UNCHANGED <<stateVars, dispatch, stream, channelTable, connVars, queue, serverEvents,
                 outbox>>

(***************************************************************************)
(* CSD_GET_CHANNEL_STATE and DSC_CHANNEL_STATE_RESULT                      *)
(***************************************************************************)
\* events.add(id, args) on the event sink bound to connection c (0: no sink bound)
Enqueue(q, c, e) == IF c = 0 THEN q ELSE [q EXCEPT ![c] = Append(@, e)]

\* state.get_client(client_id) / get_client_events(client_id) raise KeyError
\* for an id no client was ever given
ClientExists(client_id) == \E g \in ClientGuids : clientIds[g] = client_id /\ client_id # 0

\* client_get_channel_state raises: get_channel on an unknown id, or a context
\* without client_id
GetChannelStateRaises(c, msg) == ~ChannelExists(msg.channel_id) \/ ctxKind[c] # "client"

ClientGetChannelState(c, msg) ==
  /\ CanReceive(c)
  /\ calls' = calls + 1
  /\ Received(c)
  /\ IF GetChannelStateRaises(c, msg)
     THEN /\ error' = [error EXCEPT ![c] = TRUE]
          /\ UNCHANGED queue
     ELSE /\ queue' = Enqueue(queue, devEvents[ChannelCfg[msg.channel_id].device_id],
                              Event("GET_CHANNEL_STATE", <<ctxId[c], msg.channel_id>>))
          /\ UNCHANGED error
  /\ last' = [op |-> "get_channel_state", conn |-> c, msg |-> msg,
              raised |-> GetChannelStateRaises(c, msg)]
  /\ UNCHANGED <<stateVars, dispatch, stream, channelTable, connState, ctxKind, ctxId, serverEvents, outbox>>

\* device_channel_state_result raises: get_client_events on an unknown client
\* id, or channel_ids[channel_number] out of range
StateResultRaises(c, msg) ==
  \/ ctxKind[c] # "device"
  \/ ~ClientExists(msg.receiver_id)
  \/ msg.channel_number >= Len(DeviceCfg[ctxId[c]].channel_ids)

DeviceChannelStateResult(c, msg) ==
  /\ CanReceive(c)
  /\ calls' = calls + 1
  /\ Received(c)
  /\ IF StateResultRaises(c, msg)
     THEN /\ error' = [error EXCEPT ![c] = TRUE]
          /\ UNCHANGED queue
     ELSE /\ queue' = Enqueue(queue, cliEvents[msg.receiver_id],
                              Event("CHANNEL_STATE_RESULT",
                                    <<msg, DeviceCfg[ctxId[c]].channel_ids[msg.channel_number + 1]>>))
          /\ UNCHANGED error
  /\ last' = [op |-> "channel_state_result", conn |-> c, msg |-> msg,
              raised |-> StateResultRaises(c, msg)]
  /\ UNCHANGED <<stateVars, dispatch, stream, channelTable, connState, ctxKind, ctxId, serverEvents, outbox>>

\* encoding of a 32-bit integer, little endian
Int32(n) == <<n % 256, (n \div 256) % 256, (n \div 65536) % 256, (n \div 16777216) % 256>>
FromInt32(b) == b[1] + 256 * b[2] + 65536 * b[3] + 16777216 * b[4]

\* encoding.encode(proto.TDS_ChannelState): receiver_id as int32, channel_number
\* as one byte and three bytes of padding, fields as int32, ..., mac as 6 bytes
\* (the numeric fields after mac are left out)
EncodeChannelState(m) ==
  Int32(m.receiver_id) \o <<m.channel_number % 256, 0, 0, 0>> \o Int32(m.fields) \o m.mac

\* encoding.decode(proto.TSC_ChannelState, data): channel_id is the int32 at
\* the place of channel_number and its padding
DecodeChannelState(data) ==
  [receiver_id |-> FromInt32(SubSeq(data, 1, 4)), channel_id |-> FromInt32(SubSeq(data, 5, 8)),
   fields |-> FromInt32(SubSeq(data, 9, 12)), mac |-> SubSeq(data, 13, Len(data))]

(***************************************************************************)
(* CS_SUPERUSER_AUTHORIZATION_REQUEST, CS_DEVICE_CALCFG_REQUEST_B and      *)
(* DS_DEVICE_CALCFG_RESULT                                                 *)
(***************************************************************************)
\* server.check_authorized(email, password) with the configured credentials
\* (variant: the password alone decides)
MutCheckPasswordOnly(msg) == msg.password = "password123"

check_authorized(msg) == msg.email = "email@email.com" /\ msg.password = "password123"

\* proto.TSC_SuperUserAuthorizationResult
SuperUserAuthorizationResult(result) ==
  [call |-> "SC_SUPERUSER_AUTHORIZATION_RESULT", result |-> result]

ClientSuperuserAuthorizationRequest(c, msg) ==
  /\ CanReceive(c)
  /\ calls' = calls + 1
  /\ Received(c)
  /\ ctxKind[c] = "client"   \* the handler takes a ClientContext
  /\ IF check_authorized(msg)
     THEN /\ authorized' = [authorized EXCEPT ![ctxId[c]] = TRUE]
          /\ Send(c, <<SuperUserAuthorizationResult("AUTHORIZED")>>)
     ELSE /\ Send(c, <<SuperUserAuthorizationResult("UNAUTHORIZED")>>)
          /\ UNCHANGED authorized
  /\ last' = [op |-> "superuser_authorization", conn |-> c, msg |-> msg,
              passed |-> check_authorized(msg)]
  /\ UNCHANGED <<online, devEvents, chValue, lastValue, clientIds, clientOnline, cliEvents,
                 dispatch, stream, channelTable, connVars, queue, serverEvents>>

\* client_calcfg_request queues DEVICE_CONFIG for the owning device
CalcfgRequestAccepted(msg) == ChannelExists(msg.channel_id)

ClientCalcfgRequest(c, msg) ==
  /\ CanReceive(c)
  /\ calls' = calls + 1
  /\ Received(c)
  /\ ctxKind[c] = "client"   \* the handler takes a ClientContext
  /\ IF CalcfgRequestAccepted(msg)
     THEN LET d == ChannelCfg[msg.channel_id].device_id
          IN queue' = Enqueue(queue, devEvents[d],
                              Event("DEVICE_CONFIG",
                                    <<msg, ctxId[c],
                                      IndexOf(DeviceCfg[d].channel_ids, msg.channel_id)>>))
     ELSE UNCHANGED queue
  /\ last' = [op |-> "calcfg_request", conn |-> c, msg |-> msg,
              accepted |-> CalcfgRequestAccepted(msg)]
  /\ UNCHANGED <<stateVars, dispatch, stream, channelTable, connVars, serverEvents, outbox>>

\* device_calcfg_result queues DEVICE_CONFIG_RESULT for the client
CalcfgResultAccepted(c, msg) ==
  /\ ClientExists(msg.receiver_id)
  /\ ~(msg.channel_number >= Len(DeviceCfg[ctxId[c]].channel_ids))

DeviceCalcfgResult(c, msg) ==
  /\ CanReceive(c)
  /\ calls' = calls + 1
  /\ Received(c)
  /\ ctxKind[c] = "device"   \* the handler takes a DeviceContext
  /\ IF CalcfgResultAccepted(c, msg)
     THEN queue' = Enqueue(queue, cliEvents[msg.receiver_id],
                           Event("DEVICE_CONFIG_RESULT",
                                 <<msg, DeviceCfg[ctxId[c]].channel_ids[msg.channel_number + 1]>>))
     ELSE UNCHANGED queue
  /\ last' = [op |-> "calcfg_result", conn |-> c, msg |-> msg,
              accepted |-> CalcfgResultAccepted(c, msg)]
  /\ UNCHANGED <<stateVars, dispatch, stream, channelTable, connVars, serverEvents, outbox>>

(***************************************************************************)
(* DS_CHANNEL_SET_VALUE_RESULT                                             *)
(***************************************************************************)
\* the events channel_set_value_result adds to server.events for device d
\* (variant: a channel number out of range taken as the last channel)
MutSetValueResultClamped(d, msg) ==
  LET ids == DeviceCfg[d].channel_ids
      channel_id == ids[Min(msg.channel_number + 1, Len(ids))]
  IN <<Event("CHANNEL_VALUE_CHANGED", <<channel_id, chValue[channel_id]>>)>>

\* (variant: the change reported for a successful result only)
MutSetValueResultOnSuccess(d, msg) ==
  IF msg.channel_number >= Len(DeviceCfg[d].channel_ids) \/ ~msg.success THEN <<>>
  ELSE LET channel_id == DeviceCfg[d].channel_ids[msg.channel_number + 1]
       IN <<Event("CHANNEL_VALUE_CHANGED", <<channel_id, chValue[channel_id]>>)>>

SetValueResultEvents(d, msg) ==
  IF msg.channel_number >= Len(DeviceCfg[d].channel_ids) THEN <<>>
  ELSE LET channel_id == DeviceCfg[d].channel_ids[msg.channel_number + 1]
       IN <<Event("CHANNEL_VALUE_CHANGED", <<channel_id, chValue[channel_id]>>)>>

ChannelSetValueResult(c, msg) ==
  /\ CanReceive(c)
  /\ calls' = calls + 1
  /\ Received(c)
  /\ ctxKind[c] = "device"   \* the handler takes a DeviceContext
  /\ serverEvents' = serverEvents \o SetValueResultEvents(ctxId[c], msg)
  /\ last' = [op |-> "set_value_result", conn |-> c, msg |-> msg]
  /\ UNCHANGED <<stateVars, dispatch, stream, channelTable, connVars, queue, outbox>>

(***************************************************************************)
(* DCS_PING_SERVER and DCS_SET_ACTIVITY_TIMEOUT (any context)              *)
(***************************************************************************)
\* proto.TSDC_PingServerResult; its field is the server's clock, which no state
\* of the server depends on
PingServerResult == [call |-> "SDC_PING_SERVER_RESULT"]

Ping(c) ==
  /\ CanReceive(c)
  /\ calls' = calls + 1
  /\ Received(c)
  /\ Send(c, <<PingServerResult>>)
  /\ last' = [op |-> "ping", conn |-> c]
  /\ UNCHANGED <<stateVars, dispatch, stream, channelTable, connVars, queue, serverEvents>>

\* the value set_activity_timeout stores for a request
\* (variant: the request stored as sent)
MutTimeoutNotClamped(activity_timeout) == activity_timeout

ClampActivityTimeout(activity_timeout) ==
  Min(ACTIVITY_TIMEOUT_MAX, Max(ACTIVITY_TIMEOUT_MIN, activity_timeout))

\* proto.TSDC_SetActivityTimeoutResult
SetActivityTimeoutResult(activity_timeout) ==
  [call |-> "SDC_SET_ACTIVITY_TIMEOUT_RESULT", activity_timeout |-> activity_timeout,
   min |-> ACTIVITY_TIMEOUT_MIN, max |-> ACTIVITY_TIMEOUT_MAX]

\* msg.activity_timeout is an unsigned byte
SetActivityTimeout(c, msg) ==
  /\ CanReceive(c)
  /\ calls' = calls + 1
  /\ activity' = [activity EXCEPT
                    ![c] = [timeout |-> ClampActivityTimeout(msg.activity_timeout), idle |-> 0]]
  /\ Send(c, <<SetActivityTimeoutResult(ClampActivityTimeout(msg.activity_timeout))>>)
  /\ last' = [op |-> "set_activity_timeout", conn |-> c, msg |-> msg]
  /\ UNCHANGED <<stateVars, dispatch, stream, channelTable, connVars, queue, serverEvents>>

(***************************************************************************)
(* Call dispatch of the reader loop, and DCS_GET_REGISTRATION_ENABLED.     *)
(***************************************************************************)
\* the call ids the @call_handler decorators register
HandledCalls ==
  {"DCS_PING_SERVER", "DCS_GET_REGISTRATION_ENABLED", "DCS_SET_ACTIVITY_TIMEOUT",
   "DS_REGISTER_DEVICE_E", "DS_DEVICE_CHANNEL_VALUE_CHANGED",
   "DS_DEVICE_CHANNEL_VALUE_CHANGED_C", "CS_REGISTER_CLIENT_D",
   "CS_REGISTER_PN_CLIENT_TOKEN", "CS_OAUTH_TOKEN_REQUEST", "CS_GET_NEXT",
   "CS_EXECUTE_ACTION", "CS_SET_VALUE", "DS_CHANNEL_SET_VALUE_RESULT",
   "CS_GET_CHANNEL_CONFIG", "CSD_GET_CHANNEL_STATE", "DSC_CHANNEL_STATE_RESULT",
   "CS_SUPERUSER_AUTHORIZATION_REQUEST", "CS_DEVICE_CALCFG_REQUEST_B",
   "DS_DEVICE_CALCFG_RESULT"}

\* the reader loop finds a handler for the call id of a packet
\* (variant: every call id taken as handled)
MutEveryCallHandled(call_id) == TRUE

HasCallHandler(call_id) == call_id \in HandledCalls

\* proto.TSDC_RegistrationEnabled(0, 0): registration is never enabled
RegistrationEnabled ==
  [call |-> "SDC_GET_REGISTRATION_ENABLED_RESULT", client_timestamp |-> 0,
   iodevice_timestamp |-> 0]

\* a packet that carries no message: DCS_GET_REGISTRATION_ENABLED is answered, a
\* call id without a handler is logged ("Unhandled call") and sets context.error
ReceiveCall(c, call_id) ==
  /\ CanReceive(c)
  /\ calls' = calls + 1
  /\ Received(c)
  /\ call_id \in {"DCS_GET_REGISTRATION_ENABLED"} \cup ({call_id} \ HandledCalls)
  /\ IF HasCallHandler(call_id)
     THEN /\ Send(c, <<RegistrationEnabled>>)
          /\ UNCHANGED error
     ELSE /\ error' = [error EXCEPT ![c] = TRUE]
          /\ UNCHANGED outbox
  /\ last' = [op |-> "call", conn |-> c, call_id |-> call_id]
  /\ UNCHANGED <<stateVars, dispatch, stream, channelTable, connState, ctxKind, ctxId, queue, serverEvents>>

(***************************************************************************)
(* Activity watchdog of a connection.                                      *)
(***************************************************************************)
\* no packet of c arrived within its window
\* (variant: the window taken one second short)
MutTimedOutEarly(c) == activity[c].idle + 1 >= activity[c].timeout

TimedOut(c) == activity[c].idle >= activity[c].timeout

\* one second passes on every open connection; the watchdog of a connection
\* whose window ran out acts before the next second does
Tick ==
  /\ \E c \in Conns : ConnOpen(c)
  /\ \A c \in Conns : ConnOpen(c) => ~TimedOut(c)
  /\ activity' = [c \in Conns |->
                    IF ConnOpen(c) THEN [activity[c] EXCEPT !.idle = @ + 1] ELSE activity[c]]
  /\ last' = [op |-> "tick", conn |-> 0]
  /\ UNCHANGED <<stateVars, dispatch, stream, channelTable, connVars, queue, serverEvents, outbox, calls>>

\* "timed out after N seconds; closing connection"
Watchdog(c) ==
  /\ TimedOut(c)
  /\ CloseConnection(c)

(***************************************************************************)
(* Packet stream of a connection: recv, and send under the send mutex.     *)
(***************************************************************************)
\* the peer wrote bytes, described by written, to a stream nothing was read from
StreamWrite(bytes, written) ==
  /\ stream.wire = <<>> /\ stream.received = <<>> /\ ~stream.failed
  /\ stream' = [stream EXCEPT !.wire = bytes]
  /\ last' = [op |-> "write", conn |-> 0, written |-> written]
  /\ UNCHANGED <<stateVars, channelTable, connVars, queue, serverEvents, dispatch, activity, outbox, calls>>

\* PacketStream(reader, writer) for a minimum version, before anything was written
StreamOpen(min_version) ==
  /\ stream = IdleStream
  /\ stream' = [stream EXCEPT !.min_version = min_version]
  /\ last' = [op |-> "open", conn |-> 0]
  /\ UNCHANGED <<stateVars, channelTable, connVars, queue, serverEvents, dispatch, activity, outbox, calls>>

\* recv returns the next packet or raises NetworkError, which ends the stream
StreamRecv ==
  LET result == Recv(stream.wire, stream.min_version)
  IN /\ ~stream.failed
     /\ result.status # "wait"
     /\ stream' = [stream EXCEPT
                     !.received = Append(@, result),
                     !.failed = result.status = "error",
                     !.reading = FALSE,
                     !.wire = IF result.status = "packet"
                              THEN SubSeq(@, result.size + 1, Len(@)) ELSE <<>>]
     /\ last' = [op |-> "recv", conn |-> 0, result |-> result]
     /\ UNCHANGED <<stateVars, channelTable, connVars, queue, serverEvents, dispatch, activity, outbox,
                    calls>>

\* the peer sends a packet whose bytes arrive in parts
PeerSend(packet) ==
  /\ stream.sent = <<>> /\ stream.wire = <<>> /\ stream.unsent = <<>>
  /\ stream' = [stream EXCEPT
                  !.sent = <<packet>>,
                  !.unsent = Frame(packet.version, packet.rr_id, packet.call_id, packet.data)]
  /\ last' = [op |-> "peer_send", conn |-> 0]
  /\ UNCHANGED <<stateVars, channelTable, connVars, queue, serverEvents, dispatch, activity, outbox, calls>>

\* the next k bytes of the peer arrive in the buffer of the stream
PeerDeliver(k) ==
  /\ k \in 1..Len(stream.unsent)
  /\ stream' = [stream EXCEPT
                  !.wire = @ \o SubSeq(stream.unsent, 1, k),
                  !.unsent = SubSeq(@, k + 1, Len(@))]
  /\ last' = [op |-> "deliver", conn |-> 0]
  /\ UNCHANGED <<stateVars, channelTable, connVars, queue, serverEvents, dispatch, activity, outbox, calls>>

\* recv is called and waits for a whole packet
StreamRecvCall ==
  /\ ~stream.reading /\ ~stream.failed
  /\ stream' = [stream EXCEPT !.reading = TRUE, !.number = @ + 1]
  /\ last' = [op |-> "recv_call", conn |-> 0]
  /\ UNCHANGED <<stateVars, channelTable, connVars, queue, serverEvents, dispatch, activity, outbox, calls>>

\* the bytes buffered after a waiting recv was cancelled
\* (variant: the bytes read so far go with the cancelled call)
MutCancelDrops(bytes) == <<>>

CancelKeeps(bytes) == bytes

\* asyncio.wait_for(stream.recv(), timeout) times out: the waiting recv is cancelled
StreamRecvCancel ==
  /\ stream.reading
  /\ Recv(stream.wire, stream.min_version).status = "wait"
  /\ stream' = [stream EXCEPT !.reading = FALSE, !.wire = CancelKeeps(@)]
  /\ last' = [op |-> "recv_cancel", conn |-> 0]
  /\ UNCHANGED <<stateVars, channelTable, connVars, queue, serverEvents, dispatch, activity, outbox, calls>>

\* the writes send makes for a packet: the start tag with the header, then the
\* payload with the end tag
SendChunks(packet) ==
  LET bytes == Frame(packet.version, packet.rr_id, packet.call_id, packet.data)
  IN <<SubSeq(bytes, 1, HEADER_SIZE), SubSeq(bytes, HEADER_SIZE + 1, Len(bytes))>>

\* the send mutex can be taken
\* (variant: send without the mutex)
MutSendLockIgnored == TRUE

SendLockFree == stream.lock = ""

\* sender s calls send(packet) and waits for the mutex
StreamSend(s, packet) ==
  /\ stream.senders[s].pc = "idle"
  /\ stream' = [stream EXCEPT !.senders[s] = [pc |-> "waiting", packet |-> packet, written |-> 0],
                              !.number = @ + 1]
  /\ last' = [op |-> "send", conn |-> 0, sender |-> s]
  /\ UNCHANGED <<stateVars, channelTable, connVars, queue, serverEvents, dispatch, activity, outbox, calls>>

\* s takes the mutex; its packet gets the next packet number
StreamAcquire(s) ==
  /\ stream.senders[s].pc = "waiting"
  /\ SendLockFree
  /\ stream' = [stream EXCEPT !.lock = s, !.senders[s].pc = "sending",
                              !.senders[s].packet.rr_id = Len(stream.sent) + 1]
  /\ last' = [op |-> "acquire", conn |-> 0, sender |-> s]
  /\ UNCHANGED <<stateVars, channelTable, connVars, queue, serverEvents, dispatch, activity, outbox, calls>>

\* s writes the next part of its framed packet
StreamWritePart(s) ==
  LET sender == stream.senders[s]
  IN /\ sender.pc = "sending"
     /\ sender.written < Len(SendChunks(sender.packet))
     /\ stream' = [stream EXCEPT
                     !.wire = @ \o SendChunks(sender.packet)[sender.written + 1],
                     !.senders[s].written = @ + 1]
     /\ last' = [op |-> "write_part", conn |-> 0, sender |-> s]
     /\ UNCHANGED <<stateVars, channelTable, connVars, queue, serverEvents, dispatch, activity, outbox,
                    calls>>

\* the send of s completes: it releases the mutex
StreamRelease(s) ==
  LET sender == stream.senders[s]
  IN /\ sender.pc = "sending"
     /\ sender.written = Len(SendChunks(sender.packet))
     /\ stream' = [stream EXCEPT
                     !.lock = "",
                     !.senders[s] = [pc |-> "idle", packet |-> <<>>, written |-> 0],
                     !.sent = Append(@, sender.packet)]
     /\ last' = [op |-> "release", conn |-> 0, sender |-> s]
     /\ UNCHANGED <<stateVars, channelTable, connVars, queue, serverEvents, dispatch, activity, outbox,
                    calls>>

(***************************************************************************)
(* Event handlers: the packets each one sends on its connection.           *)
(***************************************************************************)
CHANNELPACK_MAXCOUNT == 20
CHANNELVALUE_PACK_MAXCOUNT == 20

\* consecutive chunks of at most n elements
RECURSIVE Chunks(_, _)
Chunks(seq, n) ==
  IF Len(seq) = 0 THEN <<>>
  ELSE <<SubSeq(seq, 1, Min(n, Len(seq)))>>
       \o Chunks(SubSeq(seq, Min(n, Len(seq)) + 1, Len(seq)), n)

\* utils.batched(seq, n): the chunks of seq, and one empty batch for an empty
\* seq (test_batched: batched([], 3) == [tuple()])
batched(seq, n) == IF Len(seq) = 0 THEN <<<<>>>> ELSE Chunks(seq, n)

\* items[-1].eol = True raises IndexError when the batch has no item
PackRaises(batches) == \E b \in 1..Len(batches) : batches[b] = <<>>

\* the packs sent before the first batch that raises
Packed(batches, packs) ==
  LET ok == {b \in 0..Len(batches) : \A o \in 1..b : batches[o] # <<>>}
      n == CHOOSE b \in ok : \A o \in ok : o <= b
  IN SubSeq(packs, 1, n)

\* the value of a channel; a channel added after the set-up has no device
\* session in the model and keeps its initial value
ChannelValue(id) == IF id \in DOMAIN chValue THEN chValue[id] ELSE Zero8

\* total_left after the first b batches
\* (variant: the count never reduced)
MutTotalLeftNotReduced(batches, total, b) == total

TotalLeft(batches, total, b) ==
  LET RECURSIVE Sent(_)
      Sent(i) == IF i = 0 THEN 0 ELSE Len(batches[i]) + Sent(i - 1)
  IN total - Sent(b)

\* (DEVICE, CHANNEL_SET_VALUE) on a connection whose context is device d
\* (variant: without the check that the channel is on this device)
MutSetValueNoFilter(d, channel_id, value) ==
  <<[call |-> "SD_CHANNEL_SET_VALUE", sender_id |-> 0,
     channel_number |-> IF InSeq(DeviceCfg[d].channel_ids, channel_id)
                        THEN IndexOf(DeviceCfg[d].channel_ids, channel_id) ELSE 0,
     duration_ms |-> 0, value |-> value]>>

channel_set_value(d, channel_id, value) ==
  IF ~InSeq(DeviceCfg[d].channel_ids, channel_id) THEN <<>>
  ELSE <<[call |-> "SD_CHANNEL_SET_VALUE", sender_id |-> 0,
          channel_number |-> IndexOf(DeviceCfg[d].channel_ids, channel_id),
          duration_ms |-> 0, value |-> value]>>

\* (CLIENT, SEND_LOCATIONS)
send_locations ==
  <<[call |-> "SC_LOCATIONPACK_UPDATE", total_left |-> 0,
     items |-> <<[eol |-> TRUE, id |-> 1]>>]>>

\* (CLIENT, SEND_CHANNELS)
SendChannelsBatches == batched([id \in 1..Len(channelTable) |-> id], CHANNELPACK_MAXCOUNT)

send_channels ==
  LET batches == SendChannelsBatches
  IN Packed(batches,
       [b \in 1..Len(batches) |->
          [call |-> "SC_CHANNELPACK_UPDATE_D",
           total_left |-> TotalLeft(batches, Len(channelTable), b),
           items |-> [i \in 1..Len(batches[b]) |->
                        LET ch == batches[b][i]
                        IN [eol |-> i = Len(batches[b]), id |-> ch,
                            device_id |-> channelTable[ch].device_id,
                            type |-> channelTable[ch].type, func |-> channelTable[ch].func,
                            online |-> online[channelTable[ch].device_id],
                            value |-> ChannelValue(ch)]]]])

\* (CLIENT, SEND_SCENES)
send_scenes == <<[call |-> "SC_SCENE_PACK_UPDATE", total_left |-> 0, items |-> <<>>]>>

\* (CLIENT, DEVICE_CONNECTED) and (CLIENT, DEVICE_DISCONNECTED)
\* (variant: every item reported online)
MutDeviceConnectedOnline(device_id) ==
  LET ids == DeviceChannelIds(device_id)
      batches == batched(ids, CHANNELVALUE_PACK_MAXCOUNT)
  IN Packed(batches,
       [b \in 1..Len(batches) |->
          [call |-> "SC_CHANNELVALUE_PACK_UPDATE_B",
           total_left |-> TotalLeft(batches, Len(ids), b),
           items |-> [i \in 1..Len(batches[b]) |->
                        [eol |-> i = Len(batches[b]), id |-> batches[b][i],
                         online |-> TRUE,
                         value |-> ChannelValue(batches[b][i])]]]])

client_device_connected(device_id) ==
  LET ids == DeviceChannelIds(device_id)
      batches == batched(ids, CHANNELVALUE_PACK_MAXCOUNT)
  IN Packed(batches,
       [b \in 1..Len(batches) |->
          [call |-> "SC_CHANNELVALUE_PACK_UPDATE_B",
           total_left |-> TotalLeft(batches, Len(ids), b),
           items |-> [i \in 1..Len(batches[b]) |->
                        [eol |-> i = Len(batches[b]), id |-> batches[b][i],
                         online |-> online[device_id],
                         value |-> ChannelValue(batches[b][i])]]]])

\* (CLIENT, CHANNEL_VALUE_CHANGED)
\* (variant: the stored value in place of the event's value)
MutValueChangedStored(channel_id, value) ==
  <<[call |-> "SC_CHANNELVALUE_PACK_UPDATE_B", total_left |-> 0,
     items |-> <<[eol |-> TRUE, id |-> channel_id, online |-> TRUE,
                  value |-> chValue[channel_id]]>>]>>

channel_value_changed(channel_id, value) ==
  <<[call |-> "SC_CHANNELVALUE_PACK_UPDATE_B", total_left |-> 0,
     items |-> <<[eol |-> TRUE, id |-> channel_id, online |-> TRUE, value |-> value]>>]>>

\* (DEVICE, GET_CHANNEL_STATE)
\* (variant: the channel id in place of its index in the device)
MutStateRequestById(d, sender_id, channel_id) ==
  <<[call |-> "CSD_GET_CHANNEL_STATE", sender_id |-> sender_id, channel_number |-> channel_id]>>

device_get_channel_state(d, sender_id, channel_id) ==
  <<[call |-> "CSD_GET_CHANNEL_STATE", sender_id |-> sender_id,
     channel_number |-> IndexOf(DeviceCfg[d].channel_ids, channel_id)]>>

\* (CLIENT, CHANNEL_STATE_RESULT)
client_channel_state_result(device_msg, channel_id) ==
  <<[DecodeChannelState(EncodeChannelState(device_msg)) EXCEPT !.channel_id = channel_id]
      @@ [call |-> "DSC_CHANNEL_STATE_RESULT"]>>

\* (DEVICE, DEVICE_CONFIG)
\* (variant: never passing the client's authorization on)
MutCalcfgUnauthorized(device_msg, client_id, channel_number) ==
  <<[call |-> "SD_DEVICE_CALCFG_REQUEST", sender_id |-> client_id,
     channel_number |-> channel_number, command |-> device_msg.command,
     super_user_authorized |-> FALSE,
     datatype |-> device_msg.datatype, data |-> device_msg.data]>>

device_calcfg_request(device_msg, client_id, channel_number) ==
  <<[call |-> "SD_DEVICE_CALCFG_REQUEST", sender_id |-> client_id,
     channel_number |-> channel_number, command |-> device_msg.command,
     super_user_authorized |-> authorized[client_id],
     datatype |-> device_msg.datatype, data |-> device_msg.data]>>

\* (CLIENT, DEVICE_CONFIG_RESULT)
client_calcfg_result(msg, channel_id) ==
  <<[call |-> "SC_DEVICE_CALCFG_RESULT", channel_id |-> channel_id,
     command |-> msg.command, result |-> msg.result, data |-> msg.data]>>

\* dispatch of event e in the scope of a context: the handlers registered for
\* (scope, e.id) run; an event without a handler in the scope is dropped
HandleEvent(kind, id, e) ==
  IF kind = "device" /\ e.id = "CHANNEL_SET_VALUE"
  THEN channel_set_value(id, e.args[1], e.args[2])
  ELSE IF kind = "device" /\ e.id = "GET_CHANNEL_STATE"
  THEN device_get_channel_state(id, e.args[1], e.args[2])
  ELSE IF kind = "client" /\ e.id = "CHANNEL_STATE_RESULT"
  THEN client_channel_state_result(e.args[1], e.args[2])
  ELSE IF kind = "device" /\ e.id = "DEVICE_CONFIG"
  THEN device_calcfg_request(e.args[1], e.args[2], e.args[3])
  ELSE IF kind = "client" /\ e.id = "DEVICE_CONFIG_RESULT"
  THEN client_calcfg_result(e.args[1], e.args[2])
  ELSE IF kind = "client" /\ e.id = "SEND_LOCATIONS" THEN send_locations
  ELSE IF kind = "client" /\ e.id = "SEND_CHANNELS" THEN send_channels
  ELSE IF kind = "client" /\ e.id = "SEND_SCENES" THEN send_scenes
  ELSE IF kind = "client" /\ e.id \in {"DEVICE_CONNECTED", "DEVICE_DISCONNECTED"}
  THEN client_device_connected(e.args[1])
  ELSE IF kind = "client" /\ e.id = "CHANNEL_VALUE_CHANGED"
  THEN channel_value_changed(e.args[1], e.args[2])
  ELSE <<>>

\* the handler of event e raises: a pack handler with nothing to pack
HandlerRaises(kind, e) ==
  /\ kind = "client"
  /\ \/ e.id = "SEND_CHANNELS" /\ PackRaises(SendChannelsBatches)
     \/ /\ e.id \in {"DEVICE_CONNECTED", "DEVICE_DISCONNECTED"}
        /\ PackRaises(batched(DeviceChannelIds(e.args[1]), CHANNELVALUE_PACK_MAXCOUNT))

\* the event loop of connection c handles the head of its queue; an exception of
\* the handler is caught and logged, and the loop goes on
ConnEventLoop(c) ==
  /\ ConnOpen(c)
  /\ queue[c] # <<>>
  /\ queue' = [queue EXCEPT ![c] = Tail(queue[c])]
  /\ Send(c, HandleEvent(ctxKind[c], ctxId[c], Head(queue[c])))
  /\ last' = [op |-> "event", conn |-> c, event |-> Head(queue[c]).id,
              raised |-> HandlerRaises(ctxKind[c], Head(queue[c]))]
  /\ UNCHANGED <<stateVars, dispatch, stream, channelTable, connVars, serverEvents, calls, activity>>

\* the events of the server queue that each scope has handlers for
DeviceScopeEvents == {"CHANNEL_SET_VALUE"}
ClientScopeEvents == {"DEVICE_CONNECTED", "DEVICE_DISCONNECTED", "CHANNEL_VALUE_CHANGED"}

\* the copies of server event e that reach the queue of connection c: one per
\* online device and per connected client whose event sink the queue is
Forwarded(c, e) ==
  LET n == Cardinality({d \in Devices : online[d] /\ devEvents[d] = c
                                         /\ e.id \in DeviceScopeEvents})
           + Cardinality({k \in DOMAIN clientOnline : clientOnline[k] /\ cliEvents[k] = c
                                                       /\ e.id \in ClientScopeEvents})
  IN [i \in 1..n |-> e]

\* the server event loop handles the head of server.events
\* (variant: the newest event of the queue first)
MutServerEventLoopNewest ==
  /\ serverEvents # <<>>
  /\ serverEvents' = SubSeq(serverEvents, 1, Len(serverEvents) - 1)
  /\ queue' = [c \in Conns |-> queue[c] \o Forwarded(c, serverEvents[Len(serverEvents)])]
  /\ last' = [op |-> "server_event", conn |-> 0]
  /\ UNCHANGED <<stateVars, dispatch, stream, channelTable, connVars, outbox, calls, activity>>

ServerEventLoop ==
  /\ serverEvents # <<>>
  /\ serverEvents' = Tail(serverEvents)
  /\ queue' = [c \in Conns |-> queue[c] \o Forwarded(c, Head(serverEvents))]
  /\ last' = [op |-> "server_event", conn |-> 0]
  /\ UNCHANGED <<stateVars, dispatch, stream, channelTable, connVars, outbox, calls, activity>>

(***************************************************************************)
(* Event dispatch, handler by handler: the worker of server.events takes   *)
(* the head of the queue, runs the handlers registered for it one after    *)
(* the other, and only then takes the next event.                          *)
(***************************************************************************)
\* event_handler(event_context, event_id)(handler_func) on the registry _handlers
\* (variant: the handler put in front of the registry)
MutHandlerPrepended(registry, event_context, event_id, handler_func) ==
  <<[context |-> event_context, id |-> event_id, func |-> handler_func]>> \o registry

event_handler(registry, event_context, event_id, handler_func) ==
  Append(registry, [context |-> event_context, id |-> event_id, func |-> handler_func])

\* the registry after the server-scope handlers of the tests were declared
Handlers ==
  LET h1 == event_handler(<<>>, "SERVER", "DEVICE_CONNECTED", "device_connected")
      h2 == event_handler(h1, "SERVER", "DEVICE_CONNECTED", "device_connected_with_extra")
      h3 == event_handler(h2, "SERVER", "DEVICE_DISCONNECTED", "device_disconnected")
  IN event_handler(h3, "SERVER", "CLIENT_CONNECTED", "client_connected")

\* the handlers dispatch finds for an event of a scope, in registry order
HandlersFor(event_context, event_id) ==
  LET Matches(h) == h.context = event_context /\ h.id = event_id
  IN SelectSeq(Handlers, Matches)

\* server.events.add(event_id, payload): never blocks, also while a handler runs
BusAdd(event_id) ==
  /\ calls < MaxCalls
  /\ calls' = calls + 1
  /\ serverEvents' = Append(serverEvents, Event(event_id, <<calls + 1>>))
  /\ dispatch' = [dispatch EXCEPT !.added = Append(@, event_id)]
  /\ last' = [op |-> "add", conn |-> 0]
  /\ UNCHANGED <<stateVars, connVars, queue, outbox, activity, stream, channelTable>>

\* the worker pops the head of the queue
BusPop ==
  /\ dispatch.cur = <<>>
  /\ serverEvents # <<>>
  /\ serverEvents' = Tail(serverEvents)
  /\ dispatch' = [dispatch EXCEPT !.cur = Head(serverEvents), !.done = 0]
  /\ last' = [op |-> "pop", conn |-> 0]
  /\ UNCHANGED <<stateVars, connVars, queue, outbox, calls, activity, stream, channelTable>>

\* the worker invokes the next handler of the event
BusStart ==
  /\ dispatch.cur # <<>> /\ ~dispatch.running
  /\ dispatch.done < Len(HandlersFor("SERVER", dispatch.cur.id))
  /\ dispatch' = [dispatch EXCEPT
                    !.running = TRUE,
                    !.log = Append(@, [kind |-> "start", serial |-> dispatch.cur.args[1],
                                       func |-> HandlersFor("SERVER", dispatch.cur.id)
                                                  [dispatch.done + 1].func])]
  /\ last' = [op |-> "handler_start", conn |-> 0]
  /\ UNCHANGED <<stateVars, connVars, queue, serverEvents, outbox, calls, activity, stream, channelTable>>

\* the running handler returns
BusFinish ==
  /\ dispatch.running
  /\ dispatch' = [dispatch EXCEPT
                    !.running = FALSE, !.done = @ + 1,
                    !.log = Append(@, [kind |-> "finish", serial |-> dispatch.cur.args[1],
                                       func |-> HandlersFor("SERVER", dispatch.cur.id)
                                                  [dispatch.done + 1].func])]
  /\ last' = [op |-> "handler_finish", conn |-> 0]
  /\ UNCHANGED <<stateVars, connVars, queue, serverEvents, outbox, calls, activity, stream, channelTable>>

\* every handler of the event returned: the worker is free for the next event
BusDone ==
  /\ dispatch.cur # <<>> /\ ~dispatch.running
  /\ dispatch.done = Len(HandlersFor("SERVER", dispatch.cur.id))
  /\ dispatch' = [dispatch EXCEPT !.cur = <<>>, !.done = 0]
  /\ last' = [op |-> "event_done", conn |-> 0]
  /\ UNCHANGED <<stateVars, connVars, queue, serverEvents, outbox, calls, activity, stream, channelTable>>

(***************************************************************************)
(* Specification SpecBus: events with two, one and no registered handler   *)
(* are added to server.events while its worker dispatches them.            *)
(***************************************************************************)
BusEvents == {"DEVICE_CONNECTED", "DEVICE_DISCONNECTED", "CHANNEL_SET_VALUE"}

NextBus ==
  \/ \E id \in BusEvents : BusAdd(id)
  \/ BusPop
  \/ BusStart
  \/ BusFinish
  \/ BusDone

SpecBus == Init /\ [][NextBus]_vars

(***************************************************************************)
(* Specification SpecVal: every peer sends one DS_REGISTER_DEVICE_E on its *)
(* fresh connection, valid or with one field off, and connections end.     *)
(***************************************************************************)
RegConns == 1..MaxConns

RegisterInputs ==
  ValidRegisters \cup UNION {InvalidRegisters(d) \cup FlagsRegisters(d) : d \in Devices}

NextVal ==
  \/ \E c \in RegConns : Accept(c)
  \/ \E c \in RegConns : CloseConnection(c)
  \/ \E c \in RegConns, msg \in RegisterInputs : ctxKind[c] = "base" /\ RegisterDevice(c, msg)
  \/ ServerEventLoop

SpecVal == Init /\ [][NextVal]_vars

(***************************************************************************)
(* Specification SpecDev: peers register devices on fresh connections and  *)
(* on connections that are registered already, and connections end.        *)
(***************************************************************************)
DevInputs ==
  ValidRegisters \cup {[ValidRegister(1, ZeroValues(1)) EXCEPT !.product_id = 42]}

NextDev ==
  \/ \E c \in RegConns : Accept(c)
  \/ \E c \in RegConns : CloseConnection(c)
  \/ \E c \in RegConns, msg \in DevInputs : RegisterDevice(c, msg)
  \/ ServerEventLoop

SpecDev == Init /\ [][NextDev]_vars

(***************************************************************************)
(* Specification SpecCli: peers register clients on fresh connections and  *)
(* on registered ones, the connections' event loops run, and connections   *)
(* end.  The server queue only ever holds CLIENT_CONNECTED and             *)
(* CLIENT_DISCONNECTED here, which no connection has a handler for, so it  *)
(* is kept as the record of what was emitted.                              *)
(***************************************************************************)
NextCli ==
  \/ \E c \in RegConns : Accept(c)
  \/ \E c \in RegConns : CloseConnection(c)
  \/ \E c \in RegConns, guid \in ClientGuids :
       calls < MaxCliCalls /\ RegisterClient(c, guid)
  \/ \E c \in RegConns : ConnEventLoop(c)

SpecCli == Init /\ [][NextCli]_vars

(***************************************************************************)
(* The state after every device registered with zero values on connection  *)
(* d, then n clients registered on the next n connections, and every event *)
(* loop ran until its queue was empty.                                     *)
(***************************************************************************)
DevConn(d) == d
CliConn(k) == NumDevices + k

Registered(n) ==
  /\ channelTable = ConfiguredChannels
  /\ online = [d \in Devices |-> TRUE]
  /\ devEvents = [d \in Devices |-> DevConn(d)]
  /\ chValue = [ch \in Channels |-> Zero8]
  /\ lastValue = [ch \in Channels |-> <<>>]
  /\ clientIds = [g \in ClientGuids |-> IF g - 100 <= n THEN g - 100 ELSE 0]
  /\ clientOnline = [k \in 1..Cardinality(ClientGuids) |-> k <= n]
  /\ cliEvents = [k \in 1..Cardinality(ClientGuids) |-> IF k <= n THEN CliConn(k) ELSE 0]
  /\ authorized = [k \in 1..Cardinality(ClientGuids) |-> FALSE]
  /\ connState = [c \in Conns |-> IF c <= NumDevices + n THEN "open" ELSE "idle"]
  /\ ctxKind = [c \in Conns |-> IF c <= NumDevices THEN "device"
                                ELSE IF c <= NumDevices + n THEN "client" ELSE "base"]
  /\ ctxId = [c \in Conns |-> IF c <= NumDevices THEN c
                              ELSE IF c <= NumDevices + n THEN c - NumDevices ELSE 0]
  /\ error = [c \in Conns |-> FALSE]
  /\ queue = [c \in Conns |-> <<>>]
  /\ serverEvents = <<>>
  /\ dispatch = IdleDispatch
  /\ activity = [c \in Conns |-> FreshActivity]
  /\ stream = IdleStream
  /\ outbox = [c \in Conns |->
                 IF c <= NumDevices THEN <<RegisterDeviceResult("TRUE")>>
                 ELSE IF c <= NumDevices + n
                 THEN <<RegisterClientResult("TRUE", c - NumDevices)>>
                      \o send_locations \o send_channels \o send_scenes
                 ELSE <<>>]
  /\ last = [op |-> "init", conn |-> 0]
  /\ calls = 0

(***************************************************************************)
(* Specification SpecFan: registered devices report channel values while   *)
(* up to MaxClients clients are connected.                                 *)
(***************************************************************************)
InitFan == \E n \in 0..MaxClients : Registered(n)

FanNumbers == {0, 2}
FanValues == {On8, Bytes8}

NextFan ==
  \/ \E d \in Devices, number \in FanNumbers, value \in FanValues :
       DeviceChannelValueChanged(DevConn(d), number, value)
  \/ \E c \in Conns : ConnEventLoop(c)
  \/ ServerEventLoop

SpecFan == InitFan /\ [][NextFan]_vars

(***************************************************************************)
(* Specification SpecAct: a connected client executes actions and sets     *)
(* values on channels of the registered devices.                           *)
(***************************************************************************)
InitAct == Registered(1)

ActionInputs ==
  {[action_id |-> a, subject_id |-> ch, subject_type |-> "CHANNEL"] :
     a \in {"TURN_ON", "TURN_OFF", "TOGGLE", "OPEN"}, ch \in {3, 4}}

SetValueInputs == {[target |-> "CHANNEL", value_id |-> 3, value |-> Bytes8]}

NextAct ==
  \/ \E msg \in ActionInputs : ClientExecuteAction(CliConn(1), msg)
  \/ \E msg \in SetValueInputs : ClientSetValue(CliConn(1), msg)
  \/ \E c \in Conns : ConnEventLoop(c)
  \/ ServerEventLoop

SpecAct == InitAct /\ [][NextAct]_vars

(***************************************************************************)
(* Specification SpecDim: a connected client sets brightness values and    *)
(* turns the dimmer channel of device 2 on and off.                        *)
(***************************************************************************)
Dim50 == <<50, 0, 0, 0, 0, 0, 0, 0>>
Dim30 == <<30, 0, 0, 0, 0, 0, 0, 0>>

DimmerSetInputs ==
  {[target |-> "CHANNEL", value_id |-> 4, value |-> v] : v \in {Dim50, Dim30, Zero8}}

DimmerActionInputs ==
  {[action_id |-> a, subject_id |-> 4, subject_type |-> "CHANNEL"] :
     a \in {"TURN_ON", "TURN_OFF"}}

NextDim ==
  \/ \E msg \in DimmerActionInputs : ClientExecuteAction(CliConn(1), msg)
  \/ \E msg \in DimmerSetInputs : ClientSetValue(CliConn(1), msg)
  \/ \E c \in Conns : ConnEventLoop(c)
  \/ ServerEventLoop

SpecDim == InitAct /\ [][NextDim]_vars

(***************************************************************************)
(* Specification SpecErr: a connected client sends CS_EXECUTE_ACTION       *)
(* requests the server cannot execute, among ones it can.                  *)
(***************************************************************************)
\* state.add_scene(name, caption, steps) per scene id: the channel and action of each step
SceneCfg ==
  <<[steps |-> <<[channel_id |-> 1, action |-> "TURN_ON"],
                 [channel_id |-> 3, action |-> "TURN_OFF"]>>]>>

Action(action_id, subject_id, subject_type) ==
  [action_id |-> action_id, subject_id |-> subject_id, subject_type |-> subject_type]

ErrActionInputs ==
  {Action("TURN_ON", 3, "SCHEDULE"), Action("TURN_ON", 42, "CHANNEL"),
   Action("OPEN", 3, "CHANNEL"), Action("INTERRUPT", 4, "CHANNEL"),
   Action("TURN_ON", 2, "CHANNEL"),
   Action("TURN_ON", 3, "CHANNEL"), Action("TURN_ON", 4, "CHANNEL"),
   Action("EXECUTE", 1, "SCENE")}

NextErr ==
  \/ \E msg \in ErrActionInputs : ClientExecuteAction(CliConn(1), msg)
  \/ \E c \in Conns : ConnEventLoop(c)
  \/ ServerEventLoop

SpecErr == InitAct /\ [][NextErr]_vars

(***************************************************************************)
(* Specification SpecState: connected clients ask for the state of         *)
(* channels, existing or not, and the registered devices send channel      *)
(* state results, addressed to known clients or not.                       *)
(***************************************************************************)
InitState == Registered(MaxClients)

UnknownChannel == 42
UnknownClient == MaxClients + 1
Mac == <<1, 2, 3, 4, 5, 6>>

StateRequests == {[channel_id |-> ch] : ch \in {2, 4, UnknownChannel}}

StateResults ==
  {[receiver_id |-> k, channel_number |-> n, fields |-> 2, mac |-> Mac] :
     k \in {1, MaxClients, UnknownClient}, n \in {0, 1}}

NextState ==
  \/ \E k \in 1..MaxClients, msg \in StateRequests : ClientGetChannelState(CliConn(k), msg)
  \/ \E d \in Devices, msg \in StateResults : DeviceChannelStateResult(DevConn(d), msg)
  \/ \E c \in Conns : ConnEventLoop(c)

SpecState == InitState /\ [][NextState]_vars

(***************************************************************************)
(* Specification SpecCalcfg: connected clients ask for superuser           *)
(* authorization, with the right password or a wrong one, and send calcfg  *)
(* requests; the registered devices send calcfg results.                   *)
(***************************************************************************)
AuthRequests ==
  {[email |-> "email@email.com", password |-> pw] : pw \in {"password123", "wrongpassword"}}

CalcfgRequests ==
  {[channel_id |-> ch, target |-> 0, command |-> 31, datatype |-> 42, data |-> "foobar"] :
     ch \in {2, 4, 27}}

CalcfgResults ==
  {[receiver_id |-> k, channel_number |-> n, command |-> 12, result |-> 23, data |-> "barbaz"] :
     k \in {1, MaxClients, UnknownClient}, n \in {0, 1}}

NextCalcfg ==
  \/ \E k \in 1..MaxClients, msg \in AuthRequests :
       ClientSuperuserAuthorizationRequest(CliConn(k), msg)
  \/ \E k \in 1..MaxClients, msg \in CalcfgRequests : ClientCalcfgRequest(CliConn(k), msg)
  \/ \E d \in Devices, msg \in CalcfgResults : DeviceCalcfgResult(DevConn(d), msg)
  \/ \E c \in Conns : ConnEventLoop(c)

SpecCalcfg == InitState /\ [][NextCalcfg]_vars

(***************************************************************************)
(* Specification SpecReq: a connected client sends each of its requests    *)
(* for a channel that exists and for one that does not, and CS_SET_VALUE   *)
(* also for a target that is not a channel.                                *)
(***************************************************************************)
ReqActions == {Action("TURN_ON", ch, "CHANNEL") : ch \in {3, UnknownChannel}}

ReqSetValues ==
  {[target |-> "CHANNEL", value_id |-> 3, value |-> Bytes8],
   [target |-> "CHANNEL", value_id |-> UnknownChannel, value |-> Bytes8],
   [target |-> "IODEVICE", value_id |-> 3, value |-> Bytes8]}

ConfigRequests == {[channel_id |-> ch] : ch \in {2, UnknownChannel}}

NextReq ==
  \/ \E msg \in ReqActions : ClientExecuteAction(CliConn(1), msg)
  \/ \E msg \in ReqSetValues : ClientSetValue(CliConn(1), msg)
  \/ \E msg \in ConfigRequests : ClientGetChannelConfig(CliConn(1), msg)
  \/ \E msg \in StateRequests : ClientGetChannelState(CliConn(1), msg)
  \/ \E msg \in CalcfgRequests : ClientCalcfgRequest(CliConn(1), msg)
  \/ \E c \in Conns : ConnEventLoop(c)
  \/ ServerEventLoop

SpecReq == InitAct /\ [][NextReq]_vars

(***************************************************************************)
(* Specification SpecMis: the registered devices send results and value    *)
(* changes with channel numbers they have and have not, and results for    *)
(* clients that exist and do not, while one client is connected.           *)
(***************************************************************************)
MisNumbers == {0, 1, 42}

SetValueResults ==
  {[channel_number |-> n, sender_id |-> 1, success |-> TRUE] : n \in MisNumbers}

NextMis ==
  \/ \E d \in Devices, n \in MisNumbers : DeviceChannelValueChanged(DevConn(d), n, Bytes8)
  \/ \E d \in Devices, msg \in StateResults : DeviceChannelStateResult(DevConn(d), msg)
  \/ \E d \in Devices, msg \in SetValueResults : ChannelSetValueResult(DevConn(d), msg)
  \/ \E d \in Devices, msg \in CalcfgResults : DeviceCalcfgResult(DevConn(d), msg)
  \/ \E c \in Conns : ConnEventLoop(c)
  \/ ServerEventLoop

SpecMis == InitAct /\ [][NextMis]_vars

(***************************************************************************)
(* Specification SpecTimeout: peers set the activity timeout of their      *)
(* connections, before and after registering a device or a client on them. *)
(* The first request of a run is any byte; later ones are below and above  *)
(* the range.                                                              *)
(***************************************************************************)
TimeoutRequests(n) ==
  {[activity_timeout |-> r] : r \in IF n = 0 THEN 0..255 ELSE {0, 255}}

NextTimeout ==
  \/ \E c \in RegConns : Accept(c)
  \/ \E c \in RegConns, msg \in TimeoutRequests(calls) : SetActivityTimeout(c, msg)
  \/ \E c \in RegConns :
       ctxKind[c] = "base" /\ RegisterDevice(c, ValidRegister(1, ZeroValues(1)))
  \/ \E c \in RegConns : ctxKind[c] = "base" /\ RegisterClient(c, 101)

SpecTimeout == Init /\ [][NextTimeout]_vars

(***************************************************************************)
(* Specification SpecWatch: time passes on the connections of the          *)
(* registered devices, which ping or set their activity timeout at any     *)
(* second or stay silent; the watchdog of a connection is a task of its    *)
(* own, so it runs once its window is over (weak fairness).                *)
(***************************************************************************)
InitWatch == Registered(0)

WatchRequests == {[activity_timeout |-> 31]}

NextWatch ==
  \/ Tick
  \/ \E d \in Devices : Ping(DevConn(d))
  \/ \E d \in Devices, msg \in WatchRequests : SetActivityTimeout(DevConn(d), msg)
  \/ \E c \in Conns : Watchdog(c)

SpecWatch == InitWatch /\ [][NextWatch]_vars /\ \A c \in Conns : WF_vars(Watchdog(c))

(***************************************************************************)
(* Specification SpecCall: the registered devices, a registered client and *)
(* a fresh connection send packets with call ids that have a handler or    *)
(* have none, and the server ends an errored connection (weak fairness:    *)
(* its reader loop has left).                                              *)
(***************************************************************************)
CallIds == {"DCS_GET_REGISTRATION_ENABLED", "SD_REGISTER_DEVICE_RESULT",
            "SC_REGISTER_CLIENT_RESULT_D"}

CallConns == 1..(CliConn(1) + 1)

NextCall ==
  \/ Accept(CliConn(1) + 1)
  \/ \E c \in CallConns : error[c] /\ CloseConnection(c)
  \/ \E c \in CallConns, call_id \in CallIds : ReceiveCall(c, call_id)
  \/ ServerEventLoop
  \/ \E c \in Conns : ConnEventLoop(c)

SpecCall ==
  InitAct /\ [][NextCall]_vars /\ \A c \in Conns : WF_vars(error[c] /\ CloseConnection(c))

(***************************************************************************)
(* Specification SpecAuth: clients register, ask for superuser             *)
(* authorization with the configured credentials or with a wrong email or  *)
(* password, and their connections end.                                    *)
(***************************************************************************)
AuthInputs ==
  {[email |-> e, password |-> pw] :
     e \in {"email@email.com", "other@email.com"}, pw \in {"password123", "wrongpassword"}}

AuthConns == {CliConn(k) : k \in 1..MaxClients}

NextAuth ==
  \/ \E c \in AuthConns : Accept(c)
  \/ \E c \in AuthConns : CloseConnection(c)
  \/ \E c \in AuthConns, guid \in ClientGuids : ctxKind[c] = "base" /\ RegisterClient(c, guid)
  \/ \E c \in AuthConns, msg \in AuthInputs : ClientSuperuserAuthorizationRequest(c, msg)

SpecAuth == InitAct /\ [][NextAuth]_vars

(***************************************************************************)
(* Specification SpecSend: on the stream of a client's connection the      *)
(* reader loop sends the reply of a call while the event loop sends the    *)
(* message of an event handler, each any number of times up to MaxSends in *)
(* all.                                                                    *)
(***************************************************************************)
\* the packet a sender sends, before the stream numbers it: the reply of
\* client_superuser_authorization_request, the push of channel_set_value
SendPacket(s) ==
  IF s = "reader"
  THEN [version |-> PROTO_VERSION, rr_id |-> 0,
        call_id |-> CallNumber.SC_SUPERUSER_AUTHORIZATION_RESULT, data |-> <<1>>]
  ELSE [version |-> PROTO_VERSION, rr_id |-> 0,
        call_id |-> CallNumber.SD_CHANNEL_SET_VALUE, data |-> <<2, 2>>]

NextSend ==
  \/ \E s \in Senders : stream.number < MaxSends /\ StreamSend(s, SendPacket(s))
  \/ \E s \in Senders : StreamAcquire(s)
  \/ \E s \in Senders : StreamWritePart(s)
  \/ \E s \in Senders : StreamRelease(s)

SpecSend == InitAct /\ [][NextSend]_vars

(***************************************************************************)
(* Specification SpecFrame: a peer writes one framed packet, well formed   *)
(* or with one fault, to a stream with a configured minimum version, and   *)
(* recv reads it.                                                          *)
(***************************************************************************)
MinVersions == {19, 20}

\* the packets of the tests: version 19 or 0, packet number 42, with no payload,
\* the payload 01 02 03 04, and a payload that reads like a tag
FramePackets ==
  {[version |-> v, call_id |-> c, data |-> d] :
     v \in {0, 19},
     c \in {CallNumber.DCS_PING_SERVER, CallNumber.SC_SUPERUSER_AUTHORIZATION_RESULT},
     d \in {<<>>, <<1, 2, 3, 4>>, SUPLA_TAG}}

Zeros(n) == [i \in 1..n |-> 0]

\* the bytes written for a packet with a fault of a kind at tag byte i
Faulty(kind, p, i) ==
  LET bytes == Frame(p.version, 42, p.call_id, p.data)
  IN IF kind = "start tag" THEN [bytes EXCEPT ![i] = 0]
     ELSE IF kind = "end tag" THEN [bytes EXCEPT ![Len(bytes) - Len(SUPLA_TAG) + i] = 0]
     ELSE IF kind = "header" THEN Frame(p.version, 42, 256 * p.call_id, p.data)
     ELSE bytes

NextFrame ==
  \/ \E m \in MinVersions : StreamOpen(m)
  \/ \E p \in FramePackets, kind \in {"none", "start tag", "header", "end tag"}, i \in 1..5 :
       StreamWrite(Faulty(kind, p, i), [kind |-> kind, packet |-> p])
  \/ \E p \in FramePackets :
       \/ StreamWrite(<<83, 80, 85, 76, 65>> \o Zeros(18), [kind |-> "start tag", packet |-> p])
       \/ StreamWrite(SUPLA_TAG \o Zeros(18), [kind |-> "header", packet |-> p])
  \/ StreamRecv

SpecFrame == Init /\ [][NextFrame]_vars

(***************************************************************************)
(* Specification SpecConn: with one to MaxClients clients connected and    *)
(* their first packs delivered, the devices connect, reporting zero or     *)
(* mixed values, and disconnect, and the event loops run.                  *)
(***************************************************************************)
\* the state after n clients registered on their connections and every event
\* loop ran until its queue was empty, no device being connected
ClientsRegistered(n) ==
  /\ channelTable = ConfiguredChannels
  /\ online = [d \in Devices |-> FALSE]
  /\ devEvents = [d \in Devices |-> 0]
  /\ chValue = [ch \in Channels |-> Zero8]
  /\ lastValue = [ch \in Channels |-> <<>>]
  /\ clientIds = [g \in ClientGuids |-> IF g - 100 <= n THEN g - 100 ELSE 0]
  /\ clientOnline = [k \in 1..Cardinality(ClientGuids) |-> k <= n]
  /\ cliEvents = [k \in 1..Cardinality(ClientGuids) |-> IF k <= n THEN CliConn(k) ELSE 0]
  /\ authorized = [k \in 1..Cardinality(ClientGuids) |-> FALSE]
  /\ connState = [c \in Conns |->
                    IF c > NumDevices /\ c <= NumDevices + n THEN "open" ELSE "idle"]
  /\ ctxKind = [c \in Conns |->
                  IF c > NumDevices /\ c <= NumDevices + n THEN "client" ELSE "base"]
  /\ ctxId = [c \in Conns |->
                IF c > NumDevices /\ c <= NumDevices + n THEN c - NumDevices ELSE 0]
  /\ error = [c \in Conns |-> FALSE]
  /\ queue = [c \in Conns |-> <<>>]
  /\ serverEvents = <<>>
  /\ dispatch = IdleDispatch
  /\ activity = [c \in Conns |-> FreshActivity]
  /\ stream = IdleStream
  /\ outbox = [c \in Conns |->
                 IF c > NumDevices /\ c <= NumDevices + n
                 THEN <<RegisterClientResult("TRUE", c - NumDevices)>>
                      \o send_locations \o send_channels \o send_scenes
                 ELSE <<>>]
  /\ last = [op |-> "init", conn |-> 0]
  /\ calls = 0

InitConn == \E n \in 1..MaxClients : ClientsRegistered(n)

NextConn ==
  \/ \E d \in Devices : Accept(DevConn(d))
  \/ \E d \in Devices : CloseConnection(DevConn(d))
  \/ \E d \in Devices :
       \E vals \in {ZeroValues(d), MixedValues(d)} :
         ctxKind[DevConn(d)] = "base" /\ RegisterDevice(DevConn(d), ValidRegister(d, vals))
  \/ ServerEventLoop
  \/ \E k \in 1..MaxClients : ConnEventLoop(CliConn(k))

SpecConn == InitConn /\ [][NextConn]_vars

(***************************************************************************)
(* Specification SpecPartial: the bytes of one packet arrive in parts of   *)
(* any size while recv is called, cancelled and called again, up to        *)
(* MaxSends calls; a recv that has a whole packet buffered returns (weak   *)
(* fairness).                                                              *)
(***************************************************************************)
PartialPackets ==
  {[version |-> PROTO_VERSION, rr_id |-> 42, call_id |-> CallNumber.DCS_PING_SERVER,
    data |-> d] : d \in {<<>>, <<1, 2, 3, 4>>}}

NextPartial ==
  \/ \E p \in PartialPackets : PeerSend(p)
  \/ \E k \in 1..28 : PeerDeliver(k)
  \/ stream.number < MaxSends /\ StreamRecvCall
  \/ StreamRecvCancel
  \/ stream.reading /\ StreamRecv

SpecPartial == Init /\ [][NextPartial]_vars /\ WF_vars(stream.reading /\ StreamRecv)

(***************************************************************************)
(* Specification SpecCodec: messages of the record types of                *)
(* encoding_test.py are encoded and decoded, arrays of up to MaxItems      *)
(* items.                                                                  *)
(***************************************************************************)
NextCodec == \E typ \in MessageTypes : \E msg \in Instances(typ) : EncodeDecode(typ, msg)

SpecCodec == Init /\ [][NextCodec]_vars

(***************************************************************************)
(* Specification SpecSetup: after the channels of device-1 and device-2,   *)
(* up to MaxCalls more channels are added under used and unused names, and *)
(* channels are looked up by name.                                         *)
(***************************************************************************)
SetupChannels ==
  {[name |-> "relay", type |-> "RELAY", func |-> "POWERSWITCH"],
   [name |-> "thermometer", type |-> "THERMOMETER", func |-> "THERMOMETER"],
   [name |-> "humidity", type |-> "HUMIDITYSENSOR", func |-> "HUMIDITY"]}

SetupNames == {ch.name : ch \in SetupChannels} \cup {"doesntexist"}

NextSetup ==
  \/ \E d \in Devices, ch \in SetupChannels :
       /\ Len(channelTable) < NumChannels + MaxCalls
       /\ add_channel(d, ch.name, ch.type, ch.func)
  \/ \E name \in SetupNames : get_channel_by_name(name)

SpecSetup == Init /\ [][NextSetup]_vars

(***************************************************************************)
(* Specification SpecPump: clients register on fresh connections and send  *)
(* CS_GET_NEXT, up to MaxCalls packets, and the connections' event loops   *)
(* run.                                                                    *)
(***************************************************************************)
PumpConns == 1..MaxConns

NextPump ==
  \/ \E c \in PumpConns : Accept(c)
  \/ \E c \in PumpConns, guid \in ClientGuids : calls < MaxCliCalls /\ RegisterClient(c, guid)
  \/ \E c \in PumpConns : calls < MaxCalls /\ ClientGetNext(c)
  \/ \E c \in PumpConns : ConnEventLoop(c)

SpecPump == Init /\ [][NextPump]_vars

(***************************************************************************)
(* Specification SpecPack: a world whose devices have no channel yet gets  *)
(* up to 2 * CHANNELPACK_MAXCOUNT + MaxCalls channels, all of device 1;    *)
(* then device 2, which has no channel, registers once on connection 1 and *)
(* a client once on connection 2, the event loops run, and the connection  *)
(* of the device ends.                                                     *)
(***************************************************************************)
InitBare == InitWith(<<>>)

\* the registration message of a device without channels
BareRegister(d) ==
  [guid |-> DeviceCfg[d].guid, manufacturer_id |-> DeviceCfg[d].manufacturer_id,
   product_id |-> DeviceCfg[d].product_id, channels |-> <<>>]

NextPack ==
  \/ /\ \A c \in Conns : connState[c] = "idle"
     /\ Len(channelTable) < 2 * CHANNELPACK_MAXCOUNT + MaxCalls
     /\ add_channel(1, "relay", "RELAY", "POWERSWITCH")
  \/ \E c \in {1, 2} : Accept(c)
  \/ ctxKind[1] = "base" /\ RegisterDevice(1, BareRegister(2))
  \/ \E guid \in ClientGuids : ctxKind[2] = "base" /\ RegisterClient(2, guid)
  \/ ServerEventLoop
  \/ \E c \in {1, 2} : ConnEventLoop(c)
  \/ CloseConnection(1)

SpecPack == InitBare /\ [][NextPack]_vars

(***************************************************************************)
(* Specification SpecReject: devices register with valid messages and with *)
(* messages the configuration does not match, on fresh connections, on     *)
(* connections that raised their activity timeout and while the device is  *)
(* online already; the server queue keeps what was emitted.                *)
(***************************************************************************)
RejectRegisters ==
  ValidRegisters \cup InvalidRegisters(1) \cup InvalidRegisters(2)

NextReject ==
  \/ \E c \in RegConns : Accept(c)
  \/ \E c \in RegConns :
       calls < MaxCalls /\ SetActivityTimeout(c, [activity_timeout |-> 255])
  \/ \E c \in RegConns, msg \in RejectRegisters : calls < MaxCalls /\ RegisterDevice(c, msg)

SpecReject == Init /\ [][NextReject]_vars

(***************************************************************************)
(* Specification SpecRole: the calls of clients and of devices arrive on   *)
(* the connection of a client, on the connection of a device and on a      *)
(* connection nothing registered on, up to MaxCalls packets.               *)
(***************************************************************************)
RoleConns == {DevConn(1), CliConn(1), CliConn(1) + 1}

RoleActions ==
  {[action_id |-> a, subject_id |-> 3, subject_type |-> "CHANNEL"] : a \in {"TURN_ON"}}

RoleSetValues == {[target |-> "CHANNEL", value_id |-> ch, value |-> Bytes8] : ch \in {3}}

NextRole ==
  \/ Accept(CliConn(1) + 1)
  \/ \E c \in RoleConns, msg \in RoleActions : calls < MaxCalls /\ ClientExecuteAction(c, msg)
  \/ \E c \in RoleConns, msg \in RoleSetValues : calls < MaxCalls /\ ClientSetValue(c, msg)
  \/ \E c \in RoleConns :
       calls < MaxCalls /\ DeviceChannelValueChanged(c, 0, On8)
  \/ \E c \in Conns : ConnEventLoop(c)
  \/ ServerEventLoop

SpecRole == InitAct /\ [][NextRole]_vars

(***************************************************************************)
(* Specification SpecResult: while MaxClients clients are connected, one   *)
(* of them sets the value of channel 3 and the devices send                *)
(* DS_CHANNEL_SET_VALUE_RESULT, successful or not, for channel numbers     *)
(* they have and have not, up to MaxCalls packets; the event loops run.    *)
(***************************************************************************)
ResultMessages ==
  {[channel_number |-> n, sender_id |-> sender, success |-> ok] :
     n \in {0, 2}, sender \in {0, 1}, ok \in BOOLEAN}

NextResult ==
  \/ calls < MaxCalls
     /\ ClientSetValue(CliConn(1), [target |-> "CHANNEL", value_id |-> 3, value |-> Bytes8])
  \/ \E d \in Devices, msg \in ResultMessages :
       calls < MaxCalls /\ ChannelSetValueResult(DevConn(d), msg)
  \/ \E c \in Conns : ConnEventLoop(c)
  \/ ServerEventLoop

SpecResult == InitState /\ [][NextResult]_vars

(***************************************************************************)
(* Specification SpecOrder: while MaxClients clients are connected, device *)
(* 1 reports up to MaxCalls changes of its channels, to one value and then *)
(* to another, and the event loops run in any interleaving with them.      *)
(***************************************************************************)
OrderValues == {On8, Bytes8}

NextOrder ==
  \/ \E number \in {0, 2}, value \in OrderValues :
       DeviceChannelValueChanged(DevConn(1), number, value)
  \/ \E c \in Conns : ConnEventLoop(c)
  \/ ServerEventLoop

SpecOrder == InitState /\ [][NextOrder]_vars

(***************************************************************************)
(* Properties.                                                             *)
(***************************************************************************)
\* connection c is open and its context is the DeviceContext of device d
RegisteredAsDevice(c, d) == ConnOpen(c) /\ ctxKind[c] = "device" /\ ctxId[c] = d

\* connection c is open and its context is the ClientContext of client k
RegisteredAsClient(c, k) == ConnOpen(c) /\ ctxKind[c] = "client" /\ ctxId[c] = k

LastOf(seq) == seq[Len(seq)]

\* the step from the current state to the next is the reader loop of c taking a call
CallStep(c) == calls' = calls + 1 /\ last'.conn = c

\* C1: while a connection is registered as the device with GUID g, a
\* DS_REGISTER_DEVICE_E with GUID g on another connection gets result_code FALSE,
\* that connection is marked errored, and the first one stays registered with the
\* device online; at most one open connection is registered as a device at any time.
C1_SingleSessionStep ==
  \A c1 \in Conns, c2 \in Conns, d \in Devices :
    (/\ c1 # c2 /\ RegisteredAsDevice(c1, d) /\ online[d]
     /\ CallStep(c2) /\ last'.op = "register_device"
     /\ last'.msg.guid = DeviceCfg[d].guid)
    => /\ last'.result_code = "FALSE"
       /\ LastOf(outbox'[c2]) = RegisterDeviceResult("FALSE")
       /\ error'[c2]
       /\ ~(connState'[c2] = "open" /\ ctxKind'[c2] = "device" /\ ctxId'[c2] = d)
       /\ connState'[c1] = "open" /\ ctxKind'[c1] = "device" /\ ctxId'[c1] = d
       /\ online'[d]
       /\ devEvents'[d] = devEvents[d]

C1_AtMostOneSession ==
  \A d \in Devices : Cardinality({c \in Conns : RegisteredAsDevice(c, d)}) <= 1

\* C1: every step keeps the single-session rule for devices above, and in every state
\* at most one open connection is registered as each device.
C1_SingleSessionDevices == [][C1_SingleSessionStep]_vars /\ []C1_AtMostOneSession

\* C1 witness: a valid registration was rejected because another open connection
\* is registered as the same device
C1_Witness ==
  /\ last.op = "register_device"
  /\ last.result_code = "FALSE"
  /\ ValidationError(last.msg) = ""
  /\ \E c1 \in Conns \ {last.conn} :
       RegisteredAsDevice(c1, get_device_id(last.msg.guid))

\* C3: a successful DS_REGISTER_DEVICE_E appends to the server event queue exactly one
\* CHANNEL_REGISTER_VALUE (channel id, supplied value) per channel in the order of the
\* message, then one DEVICE_CONNECTED (device id); afterwards the device is online and
\* every channel stores the supplied value.
C3_RegisterEventsStep ==
  \A c \in Conns :
    (CallStep(c) /\ last'.op = "register_device" /\ last'.result_code = "TRUE")
    => LET msg == last'.msg
           d == CHOOSE x \in Devices : DeviceCfg[x].guid = msg.guid
           ids == DeviceCfg[d].channel_ids
           n == Len(msg.channels)
           k == Len(serverEvents)
       IN /\ Len(serverEvents') = k + n + 1
          /\ SubSeq(serverEvents', 1, k) = serverEvents
          /\ \A i \in 1..n :
               serverEvents'[k + i] =
                 [id |-> "CHANNEL_REGISTER_VALUE", args |-> <<ids[i], msg.channels[i].value>>]
          /\ serverEvents'[k + n + 1] = [id |-> "DEVICE_CONNECTED", args |-> <<d>>]
          /\ online'[d]
          /\ \A i \in 1..n : chValue'[ids[i]] = msg.channels[i].value
          /\ LastOf(outbox'[c]) = RegisterDeviceResult("TRUE")

\* C3: every successful DS_REGISTER_DEVICE_E step queues exactly the per-channel
\* CHANNEL_REGISTER_VALUE events in order and then DEVICE_CONNECTED, as above.
C3_RegisterDeviceEvents == [][C3_RegisterEventsStep]_vars

\* C3 witness: device 1 registered with three different channel values
C3_Witness ==
  /\ last.op = "register_device"
  /\ last.result_code = "TRUE"
  /\ last.msg = ValidRegister(1, MixedValues(1))
  /\ Len(serverEvents) >= 4

\* what C4 calls an invalid registration: the GUID is not configured, or the
\* manufacturer or product id differs, or the number of channels differs, or the
\* channel at index i has another number, type or default function than channel i
C4_Invalid(msg) ==
  \/ \A d \in Devices : DeviceCfg[d].guid # msg.guid
  \/ \E d \in Devices :
       /\ DeviceCfg[d].guid = msg.guid
       /\ \/ DeviceCfg[d].manufacturer_id # msg.manufacturer_id
          \/ DeviceCfg[d].product_id # msg.product_id
          \/ Len(msg.channels) # Len(DeviceCfg[d].channel_ids)
          \/ \E i \in 1..Len(msg.channels) :
               /\ i <= Len(DeviceCfg[d].channel_ids)
               /\ \/ msg.channels[i].number # i - 1
                  \/ msg.channels[i].type # ChannelCfg[DeviceCfg[d].channel_ids[i]].type
                  \/ msg.channels[i].default_func # ChannelCfg[DeviceCfg[d].channel_ids[i]].func

\* C4: an invalid DS_REGISTER_DEVICE_E gets result_code FALSE, leaves the state as it
\* was and marks the connection errored; an errored connection takes no further call,
\* and when it is closed the FALSE result is the last message written to it.
C4_InvalidStep ==
  \A c \in Conns :
    /\ (CallStep(c) /\ last'.op = "register_device" /\ C4_Invalid(last'.msg))
       => /\ last'.result_code = "FALSE"
          /\ outbox'[c] = Append(outbox[c], RegisterDeviceResult("FALSE"))
          /\ error'[c]
          /\ UNCHANGED <<stateVars, channelTable, serverEvents, ctxKind, ctxId>>
    /\ error[c] => ~CallStep(c) /\ outbox'[c] = outbox[c]
    /\ (error[c] /\ connState[c] = "open" /\ connState'[c] = "closed")
       => LastOf(outbox[c]) = RegisterDeviceResult("FALSE")

\* C4: every step keeps the rejection rule for invalid registrations above.
C4_InvalidRegistrationRejected == [][C4_InvalidStep]_vars

\* C4 witness: a registration with a wrong default function on its last channel was
\* rejected and the connection is errored
C4_Witness ==
  /\ last.op = "register_device"
  /\ last.result_code = "FALSE"
  /\ error[last.conn]
  /\ last.msg = [ValidRegister(1, ZeroValues(1)) EXCEPT !.channels[3].default_func = "LIGHTSWITCH"]

\* C5: a DS_REGISTER_DEVICE_E whose channel flags differ from the configured flags is
\* rejected like any other invalid registration (result_code FALSE, errored).
C5_FlagsDiffer(msg) ==
  \E d \in Devices :
    /\ DeviceCfg[d].guid = msg.guid
    /\ \E i \in 1..Len(msg.channels) :
         /\ i <= Len(DeviceCfg[d].channel_ids)
         /\ msg.channels[i].flags # ChannelCfg[DeviceCfg[d].channel_ids[i]].flags

C5_FlagsMismatchRejected ==
  (last.op = "register_device" /\ C5_FlagsDiffer(last.msg))
  => /\ last.result_code = "FALSE"
     /\ error[last.conn]
     /\ ctxKind[last.conn] = "base"

\* C6: a device is online exactly when one open connection is registered as it, and
\* no more than one connection is; once every connection has ended no device is online.
C6_OnlineIffConnection ==
  /\ \A d \in Devices :
       /\ Cardinality({c \in Conns : RegisteredAsDevice(c, d)}) <= 1
       /\ online[d] <=> \E c \in Conns : RegisteredAsDevice(c, d)
  /\ (\A c \in Conns : connState[c] # "open") => \A d \in Devices : ~online[d]

\* C2: while a connection is registered as the client with GUID g, a
\* CS_REGISTER_CLIENT_D with GUID g on another connection gets result_code FALSE and
\* the connection is marked errored (it takes no further call and, if it had not
\* registered before, is sent nothing more); no CLIENT_CONNECTED, SEND_LOCATIONS,
\* SEND_CHANNELS or SEND_SCENES is queued, and the first connection keeps its
\* registration, its event sink and its queue.
C2_SingleSessionStep ==
  \A c1 \in Conns, c2 \in Conns, g \in ClientGuids :
    /\ (/\ c1 # c2 /\ clientIds[g] # 0 /\ RegisteredAsClient(c1, clientIds[g])
        /\ clientOnline[clientIds[g]]
        /\ CallStep(c2) /\ last'.op = "register_client" /\ last'.guid = g)
       => /\ last'.result_code = "FALSE"
          /\ outbox'[c2] = Append(outbox[c2],
                                  [call |-> "SC_REGISTER_CLIENT_RESULT_D",
                                   result_code |-> "FALSE", client_id |-> clientIds[g],
                                   location_count |-> 1, channel_count |-> Len(channelTable),
                                   activity_timeout |-> activity[c2].timeout])
          /\ error'[c2]
          /\ serverEvents' = serverEvents
          /\ queue' = queue
          /\ ctxKind' = ctxKind /\ ctxId' = ctxId
          /\ connState'[c1] = "open"
          /\ clientOnline' = clientOnline
          /\ cliEvents' = cliEvents /\ cliEvents[clientIds[g]] = c1
          /\ outbox'[c1] = outbox[c1]
    /\ error[c2] => ~CallStep(c2)
    /\ (error[c2] /\ ctxKind[c2] = "base") => outbox'[c2] = outbox[c2]

\* C2: every step keeps the single-session rule for clients above.
C2_SingleSessionClients == [][C2_SingleSessionStep]_vars

\* C2 witness: a fresh connection was refused the GUID another open connection holds
C2_Witness ==
  /\ last.op = "register_client"
  /\ last.result_code = "FALSE"
  /\ ctxKind[last.conn] = "base"
  /\ error[last.conn]
  /\ \E c1 \in Conns \ {last.conn} : RegisteredAsClient(c1, last.client_id)

\* the number of messages among the first j of seq that are the call named
CountCall(seq, name, j) == Cardinality({i \in 1..j : seq[i].call = name})

\* the number of TRUE register results among the first j messages of seq
CountRegistered(seq, j) ==
  Cardinality({i \in 1..j : /\ seq[i].call = "SC_REGISTER_CLIENT_RESULT_D"
                            /\ seq[i].result_code = "TRUE"})

CountEvent(seq, name) == Cardinality({i \in 1..Len(seq) : seq[i].id = name})

\* the SC_CHANNELPACK_UPDATE_D packs one SEND_CHANNELS makes
PacksPerSend == (NumChannels + CHANNELPACK_MAXCOUNT - 1) \div CHANNELPACK_MAXCOUNT

\* C8: on every connection, at every point of what was sent, each SC_LOCATIONPACK_UPDATE
\* follows its TRUE register result, each SC_CHANNELPACK_UPDATE_D its location pack
\* and each SC_SCENE_PACK_UPDATE all its channel packs; on an open connection each
\* TRUE result has its three pushes either sent or still queued.
C8_RegisterThenPacks ==
  \A c \in Conns :
    LET o == outbox[c]
        n == Len(o)
    IN /\ \A j \in 0..n :
            /\ CountCall(o, "SC_LOCATIONPACK_UPDATE", j) <= CountRegistered(o, j)
            /\ CountCall(o, "SC_CHANNELPACK_UPDATE_D", j)
                 <= PacksPerSend * CountCall(o, "SC_LOCATIONPACK_UPDATE", j)
            /\ PacksPerSend * CountCall(o, "SC_SCENE_PACK_UPDATE", j)
                 <= CountCall(o, "SC_CHANNELPACK_UPDATE_D", j)
       /\ ConnOpen(c) =>
            /\ CountRegistered(o, n)
                 = CountCall(o, "SC_LOCATIONPACK_UPDATE", n) + CountEvent(queue[c], "SEND_LOCATIONS")
            /\ PacksPerSend * CountRegistered(o, n)
                 = CountCall(o, "SC_CHANNELPACK_UPDATE_D", n)
                   + PacksPerSend * CountEvent(queue[c], "SEND_CHANNELS")
            /\ CountRegistered(o, n)
                 = CountCall(o, "SC_SCENE_PACK_UPDATE", n) + CountEvent(queue[c], "SEND_SCENES")

\* C8 witness: a connection was sent exactly the TRUE result, the location pack,
\* the channel pack and the scene pack
C8_Witness ==
  \E c \in Conns :
    /\ Len(outbox[c]) = 3 + PacksPerSend
    /\ outbox[c][1].call = "SC_REGISTER_CLIENT_RESULT_D" /\ outbox[c][1].result_code = "TRUE"
    /\ outbox[c][2].call = "SC_LOCATIONPACK_UPDATE"
    /\ outbox[c][3].call = "SC_CHANNELPACK_UPDATE_D"
    /\ outbox[c][Len(outbox[c])].call = "SC_SCENE_PACK_UPDATE"
    /\ queue[c] = <<>>

\* the pack C7 expects a client to get for one change of channel ch to value v
C7_Pack(ch, v) ==
  [call |-> "SC_CHANNELVALUE_PACK_UPDATE_B", total_left |-> 0,
   items |-> <<[eol |-> TRUE, id |-> ch, online |-> TRUE, value |-> v]>>]

\* everything of kind SC_CHANNELVALUE_PACK_UPDATE_B that client k was sent, followed
\* by what the CHANNEL_VALUE_CHANGED events on their way to it amount to
C7_ClientPipeline(k) ==
  LET c == cliEvents[k]
      IsPack(m) == m.call = "SC_CHANNELVALUE_PACK_UPDATE_B"
      IsChange(e) == e.id = "CHANNEL_VALUE_CHANGED"
      Packs(es) == [i \in 1..Len(es) |-> C7_Pack(es[i].args[1], es[i].args[2])]
  IN SelectSeq(outbox[c], IsPack)
     \o Packs(SelectSeq(queue[c], IsChange))
     \o Packs(SelectSeq(serverEvents, IsChange))

\* C7: a DS_DEVICE_CHANNEL_VALUE_CHANGED(channel_number, value) from a registered
\* device stores the value for the device's channel at that index and adds exactly
\* one single-item pack (channel id, eol, total_left 0, the value) to what each
\* connected client gets; no other step adds to or takes from what a client gets.
C7_FanOutStep ==
  \A k \in DOMAIN clientOnline :
    clientOnline[k] =>
      IF \E c \in Conns : CallStep(c) /\ last'.op = "value_changed" /\ ~last'.raised
      THEN LET d == ctxId[last'.conn]
               ch == DeviceCfg[d].channel_ids[last'.channel_number + 1]
           IN /\ chValue'[ch] = last'.value
              /\ C7_ClientPipeline(k)' = Append(C7_ClientPipeline(k), C7_Pack(ch, last'.value))
      ELSE C7_ClientPipeline(k)' = C7_ClientPipeline(k)

\* C7: every step keeps the fan-out rule above: one pack per connected client per
\* reported change, none lost and none doubled.
C7_FanOut == [][C7_FanOutStep]_vars

\* C7 witness: every one of MaxClients connected clients was sent the pack of a change
\* of channel 3 to 01 02 03 04 05 06 07 08 and nothing is on its way any more
C7_Witness ==
  /\ \A k \in 1..MaxClients :
       /\ clientOnline[k]
       /\ \E i \in 1..Len(outbox[cliEvents[k]]) : outbox[cliEvents[k]][i] = C7_Pack(3, Bytes8)
  /\ serverEvents = <<>>
  /\ \A c \in Conns : queue[c] = <<>>
  /\ chValue[3] = Bytes8

\* the SD_CHANNEL_SET_VALUE C9 expects device d to get for channel ch set to v
C9_SetMsg(d, ch, v) ==
  [call |-> "SD_CHANNEL_SET_VALUE", sender_id |-> 0,
   channel_number |-> (CHOOSE i \in 1..Len(DeviceCfg[d].channel_ids) :
                         DeviceCfg[d].channel_ids[i] = ch) - 1,
   duration_ms |-> 0, value |-> v]

\* every SD_CHANNEL_SET_VALUE the connection of device d was sent, followed by what
\* the CHANNEL_SET_VALUE events for channels of d on their way to it amount to
C9_DevicePipeline(d) ==
  LET c == devEvents[d]
      IsSet(m) == m.call = "SD_CHANNEL_SET_VALUE"
      IsOwn(e) == e.id = "CHANNEL_SET_VALUE" /\ ChannelCfg[e.args[1]].device_id = d
      Msgs(es) == [i \in 1..Len(es) |-> C9_SetMsg(d, es[i].args[1], es[i].args[2])]
  IN SelectSeq(outbox[c], IsSet)
     \o Msgs(SelectSeq(queue[c], IsOwn))
     \o Msgs(SelectSeq(serverEvents, IsOwn))

\* the call of this step succeeded in setting a channel
C9_SetStep ==
  /\ calls' = calls + 1
  /\ \/ last'.op = "execute_action" /\ last'.result_code = "TRUE"
     \/ last'.op = "set_value" /\ last'.accepted

\* C9: with the devices connected, a successful CS_EXECUTE_ACTION or CS_SET_VALUE on
\* channel ch stores the new value and adds exactly one SD_CHANNEL_SET_VALUE
\* {sender_id 0, channel_number index of ch, duration_ms 0, the new value} to what the
\* owning device's connection gets and nothing to any other device's; the client gets
\* SC_ACTION_EXECUTION_RESULT TRUE echoing a CS_EXECUTE_ACTION and nothing for a
\* CS_SET_VALUE; no other step changes what a device connection gets.
C9_SetValueStep ==
  IF C9_SetStep
  THEN LET ch == IF last'.op = "execute_action" THEN last'.msg.subject_id
                 ELSE last'.msg.value_id
           own == ChannelCfg[ch].device_id
           c == last'.conn
       IN /\ last'.op = "set_value" => chValue'[ch] = last'.msg.value
          /\ \A d \in Devices :
               C9_DevicePipeline(d)'
                 = IF d = own
                   THEN Append(C9_DevicePipeline(d), C9_SetMsg(d, ch, chValue'[ch]))
                   ELSE C9_DevicePipeline(d)
          /\ IF last'.op = "execute_action"
             THEN outbox'[c] = Append(outbox[c],
                                      [call |-> "SC_ACTION_EXECUTION_RESULT",
                                       result_code |-> "TRUE",
                                       action_id |-> last'.msg.action_id,
                                       subject_id |-> last'.msg.subject_id,
                                       subject_type |-> last'.msg.subject_type])
             ELSE outbox'[c] = outbox[c]
  ELSE \A d \in Devices : C9_DevicePipeline(d)' = C9_DevicePipeline(d)

\* C9: every step keeps the delivery rule above: one SD_CHANNEL_SET_VALUE for the
\* owning device per successful set, none for any other device.
C9_SetValueDelivered == [][C9_SetValueStep]_vars

\* C9 witness: after TURN_ON on channel 3 the connection of device 1 was sent
\* SD_CHANNEL_SET_VALUE{channel_number 2, 01 00 00 00 00 00 00 00}, the connection of
\* device 2 no SD_CHANNEL_SET_VALUE, and the client the TRUE result
C9_Witness ==
  /\ outbox[DevConn(1)] = <<RegisterDeviceResult("TRUE"), C9_SetMsg(1, 3, On8)>>
  /\ C9_SetMsg(1, 3, On8).channel_number = 2
  /\ outbox[DevConn(2)] = <<RegisterDeviceResult("TRUE")>>
  /\ LastOf(outbox[CliConn(1)]).call = "SC_ACTION_EXECUTION_RESULT"
  /\ LastOf(outbox[CliConn(1)]).result_code = "TRUE"
  /\ serverEvents = <<>> /\ \A c \in Conns : queue[c] = <<>>

\* the last step was a CS_EXECUTE_ACTION on an existing RELAY channel
C10_OnRelay ==
  /\ last.op = "execute_action"
  /\ last.msg.subject_type = "CHANNEL"
  /\ last.msg.subject_id \in Channels
  /\ ChannelCfg[last.msg.subject_id].type = "RELAY"

\* the value was stored for the channel and is the last one emitted for the device
C10_StoredAndSent(v) ==
  /\ last.result_code = "TRUE"
  /\ chValue[last.msg.subject_id] = v
  /\ serverEvents # <<>>
  /\ LastOf(serverEvents) = [id |-> "CHANNEL_SET_VALUE", args |-> <<last.msg.subject_id, v>>]

\* v with the low bit of its first byte flipped
C10_FlipLowBit(v) == [v EXCEPT ![1] = IF v[1] % 2 = 0 THEN v[1] + 1 ELSE v[1] - 1]

\* C10 as stated: TURN_ON stores and sends 01 00 x7, TURN_OFF 00 x8, TOGGLE the
\* stored value with its low bit flipped; every other action gets FALSE.
C10_ToggleFlipsLowBit ==
  C10_OnRelay =>
    IF last.msg.action_id = "TURN_ON" THEN C10_StoredAndSent(<<1, 0, 0, 0, 0, 0, 0, 0>>)
    ELSE IF last.msg.action_id = "TURN_OFF" THEN C10_StoredAndSent(<<0, 0, 0, 0, 0, 0, 0, 0>>)
    ELSE IF last.msg.action_id = "TOGGLE" THEN C10_StoredAndSent(C10_FlipLowBit(last.old))
    ELSE last.result_code = "FALSE"

\* C10 amended: TURN_ON stores and sends 01 00 x7, TURN_OFF 00 x8, TOGGLE 01 00 x7
\* when the first byte of the stored value is 00 and 00 x8 when it is 01, whatever
\* the other seven stored bytes are; every other action gets FALSE.
C10_RelayActionValues ==
  C10_OnRelay =>
    IF last.msg.action_id = "TURN_ON" THEN C10_StoredAndSent(<<1, 0, 0, 0, 0, 0, 0, 0>>)
    ELSE IF last.msg.action_id = "TURN_OFF" THEN C10_StoredAndSent(<<0, 0, 0, 0, 0, 0, 0, 0>>)
    ELSE IF last.msg.action_id = "TOGGLE"
    THEN /\ last.result_code = "TRUE"
         /\ last.old[1] = 0 => C10_StoredAndSent(<<1, 0, 0, 0, 0, 0, 0, 0>>)
         /\ last.old[1] = 1 => C10_StoredAndSent(<<0, 0, 0, 0, 0, 0, 0, 0>>)
    ELSE last.result_code = "FALSE"

\* C10 witness: TOGGLE on relay channel 3 while it stored 01 02 03 04 05 06 07 08
C10_Witness ==
  /\ C10_OnRelay
  /\ last.msg.action_id = "TOGGLE"
  /\ last.old = Bytes8
  /\ last.result_code = "TRUE"

\* the values set on the dimmer channel 4 so far, oldest first: what the connection
\* of device 2 was sent or is about to be sent as SD_CHANNEL_SET_VALUE
C11_SetHistory ==
  LET c == devEvents[2]
      IsSet(m) == m.call = "SD_CHANNEL_SET_VALUE"
      IsOwn(e) == e.id = "CHANNEL_SET_VALUE" /\ e.args[1] = 4
  IN [i \in 1..Len(SelectSeq(outbox[c], IsSet)) |-> SelectSeq(outbox[c], IsSet)[i].value]
     \o [i \in 1..Len(SelectSeq(queue[c], IsOwn)) |-> SelectSeq(queue[c], IsOwn)[i].args[2]]
     \o [i \in 1..Len(SelectSeq(serverEvents, IsOwn)) |->
           SelectSeq(serverEvents, IsOwn)[i].args[2]]

\* the brightness TURN_ON has to restore after the values in h: the most recent
\* non-zero brightness, 100 when there is none
C11_Remembered(h) ==
  LET nz == {i \in 1..Len(h) : h[i][1] # 0}
  IN IF nz = {} THEN 100 ELSE h[CHOOSE i \in nz : \A j \in nz : j <= i][1]

\* C11: on the dimmer channel, TURN_ON stores and sends the most recent non-zero
\* brightness set so far (100 if there was none), whether or not a TURN_OFF came in
\* between; TURN_OFF stores and sends brightness 0 and leaves what is remembered.
C11_DimmerStep ==
  (/\ calls' = calls + 1 /\ last'.op = "execute_action"
   /\ last'.msg.subject_type = "CHANNEL" /\ last'.msg.subject_id = 4
   /\ last'.msg.action_id \in {"TURN_ON", "TURN_OFF"})
  => /\ last'.result_code = "TRUE"
     /\ Len(C11_SetHistory') = Len(C11_SetHistory) + 1
     /\ chValue'[4] = C11_SetHistory'[Len(C11_SetHistory')]
     /\ IF last'.msg.action_id = "TURN_ON"
        THEN chValue'[4][1] = C11_Remembered(C11_SetHistory)
        ELSE /\ chValue'[4][1] = 0
             /\ C11_Remembered(C11_SetHistory') = C11_Remembered(C11_SetHistory)

\* C11: every step keeps the dimmer memory rule above.
C11_DimmerMemory == [][C11_DimmerStep]_vars

\* C11 witness: brightness 50 was set, the dimmer turned off, and TURN_ON restored 50
C11_Witness ==
  /\ last.op = "execute_action" /\ last.msg.action_id = "TURN_ON"
  /\ C11_SetHistory = <<Dim50, Zero8, Dim50>>
  /\ chValue[4] = Dim50

\* what C12 calls a failing CS_EXECUTE_ACTION
C12_Failing(msg) ==
  \/ msg.subject_type \notin {"CHANNEL", "SCENE"}
  \/ /\ msg.subject_type = "CHANNEL"
     /\ \/ msg.subject_id \notin Channels
        \/ /\ msg.subject_id \in Channels
           /\ LET type == ChannelCfg[msg.subject_id].type
              IN \/ type = "RELAY" /\ msg.action_id \notin {"TURN_ON", "TURN_OFF", "TOGGLE"}
                 \/ type = "DIMMER" /\ msg.action_id \notin {"TURN_ON", "TURN_OFF"}
                 \/ type \notin {"RELAY", "DIMMER"}

\* C12: a failing CS_EXECUTE_ACTION is answered with SC_ACTION_EXECUTION_RESULT FALSE
\* echoing action_id, subject_id and subject_type, changes no channel value or
\* last_value, queues no event, and leaves the client connection open, registered
\* and not errored.
C12_FailingStep ==
  \A c \in Conns :
    (CallStep(c) /\ last'.op = "execute_action" /\ C12_Failing(last'.msg))
    => /\ outbox'[c] = Append(outbox[c],
                              [call |-> "SC_ACTION_EXECUTION_RESULT", result_code |-> "FALSE",
                               action_id |-> last'.msg.action_id,
                               subject_id |-> last'.msg.subject_id,
                               subject_type |-> last'.msg.subject_type])
       /\ UNCHANGED <<chValue, lastValue, serverEvents, queue, stateVars, channelTable, connVars>>
       /\ connState'[c] = "open" /\ ~error'[c]

\* C12: every step keeps the rule for failing actions above.
C12_FailingActionRejected == [][C12_FailingStep]_vars

\* C12 witness: an unsupported action on the dimmer was refused after TURN_ON had
\* set the dimmer to a non-zero brightness
C12_Witness ==
  /\ last.op = "execute_action"
  /\ last.msg = Action("INTERRUPT", 4, "CHANNEL")
  /\ last.result_code = "FALSE"
  /\ chValue[4] # Zero8
  /\ ConnOpen(last.conn) /\ ~error[last.conn]

\* C13: CS_EXECUTE_ACTION with subject type SCENE and action EXECUTE on an existing
\* scene is accepted (result_code TRUE) and the CHANNEL_SET_VALUE events of the
\* scene's steps are emitted in step order, each with the value of the step's action.
C13_SceneExecuted ==
  (/\ last.op = "execute_action"
   /\ last.msg.subject_type = "SCENE" /\ last.msg.action_id = "EXECUTE"
   /\ last.msg.subject_id \in DOMAIN SceneCfg)
  => LET steps == SceneCfg[last.msg.subject_id].steps
         n == Len(steps)
         k == Len(serverEvents)
     IN /\ last.result_code = "TRUE"
        /\ k >= n
        /\ \A i \in 1..n :
             serverEvents[k - n + i] =
               [id |-> "CHANNEL_SET_VALUE",
                args |-> <<steps[i].channel_id,
                           IF steps[i].action = "TURN_ON" THEN On8 ELSE Zero8>>]

\* the request the claim has the device receive for channel ch asked by client k
C14_Request(k, ch) ==
  [call |-> "CSD_GET_CHANNEL_STATE", sender_id |-> k,
   channel_number |-> IndexOf(DeviceCfg[ChannelCfg[ch].device_id].channel_ids, ch)]

\* the result the claim has the client receive for the device's answer m
C14_Result(d, m) ==
  [call |-> "DSC_CHANNEL_STATE_RESULT", receiver_id |-> m.receiver_id,
   channel_id |-> DeviceCfg[d].channel_ids[m.channel_number + 1],
   fields |-> m.fields, mac |-> m.mac]

\* the channel state requests the connection of device d was sent and will be
\* sent for the events of its queue
C14_DevicePipeline(d) ==
  LET c == DevConn(d)
      IsReq(m) == m.call = "CSD_GET_CHANNEL_STATE"
      IsGet(e) == e.id = "GET_CHANNEL_STATE"
      q == SelectSeq(queue[c], IsGet)
  IN SelectSeq(outbox[c], IsReq) \o [i \in 1..Len(q) |-> C14_Request(q[i].args[1], q[i].args[2])]

\* the channel state results the connection of client k was sent and will be
\* sent for the events of its queue
C14_ClientPipeline(k) ==
  LET c == CliConn(k)
      IsRes(m) == m.call = "DSC_CHANNEL_STATE_RESULT"
      IsResEvent(e) == e.id = "CHANNEL_STATE_RESULT"
      q == SelectSeq(queue[c], IsResEvent)
  IN SelectSeq(outbox[c], IsRes)
     \o [i \in 1..Len(q) |->
           [call |-> "DSC_CHANNEL_STATE_RESULT", receiver_id |-> q[i].args[1].receiver_id,
            channel_id |-> q[i].args[2], fields |-> q[i].args[1].fields,
            mac |-> q[i].args[1].mac]]

\* C14: CSD_GET_CHANNEL_STATE{channel_id c} of client k adds exactly one
\* CSD_GET_CHANNEL_STATE{sender_id k, channel_number index of c} to what the device
\* owning c gets and nothing to any other device; DSC_CHANNEL_STATE_RESULT
\* {receiver_id k, channel_number n} of a device adds exactly one
\* DSC_CHANNEL_STATE_RESULT{channel_id the device's n-th channel, fields and mac
\* copied} to what client k gets and nothing to any other client; no other step
\* changes what devices and clients get of these two calls.
C14_StateStep ==
  IF last'.op = "get_channel_state" /\ calls' = calls + 1 /\ ~last'.raised
  THEN LET ch == last'.msg.channel_id
           k == ctxId[last'.conn]
       IN /\ \A d \in Devices :
               C14_DevicePipeline(d)'
                 = IF d = ChannelCfg[ch].device_id
                   THEN Append(C14_DevicePipeline(d), C14_Request(k, ch))
                   ELSE C14_DevicePipeline(d)
          /\ \A j \in 1..MaxClients : C14_ClientPipeline(j)' = C14_ClientPipeline(j)
  ELSE IF last'.op = "channel_state_result" /\ calls' = calls + 1 /\ ~last'.raised
  THEN LET m == last'.msg
           dev == ctxId[last'.conn]
       IN /\ \A j \in 1..MaxClients :
               C14_ClientPipeline(j)'
                 = IF j = m.receiver_id
                   THEN Append(C14_ClientPipeline(j), C14_Result(dev, m))
                   ELSE C14_ClientPipeline(j)
          /\ \A d \in Devices : C14_DevicePipeline(d)' = C14_DevicePipeline(d)
  ELSE /\ \A d \in Devices : C14_DevicePipeline(d)' = C14_DevicePipeline(d)
       /\ \A j \in 1..MaxClients : C14_ClientPipeline(j)' = C14_ClientPipeline(j)

\* C14: every step keeps the round trip rule above: the request reaches the owning
\* device with the asking client's id, the result reaches exactly that client.
C14_StateRoundTrip == [][C14_StateStep]_vars

\* C14 witness: client 2 asked for channel 2, device 1 was sent the request with
\* sender_id 2 and channel_number 1 and answered, client 2 was sent the result with
\* channel_id 2 and the mac, and client 1 was sent no result
C14_Witness ==
  /\ outbox[DevConn(1)] = <<RegisterDeviceResult("TRUE"),
                            [call |-> "CSD_GET_CHANNEL_STATE", sender_id |-> MaxClients,
                             channel_number |-> 1]>>
  /\ LastOf(outbox[CliConn(MaxClients)])
       = [call |-> "DSC_CHANNEL_STATE_RESULT", receiver_id |-> MaxClients,
          channel_id |-> 2, fields |-> 2, mac |-> Mac]
  /\ \A i \in 1..Len(outbox[CliConn(1)]) :
       outbox[CliConn(1)][i].call # "DSC_CHANNEL_STATE_RESULT"
  /\ \A c \in Conns : queue[c] = <<>>

\* the calcfg request the claim has the device receive, without the authorization flag
C15_Request(k, m) ==
  [call |-> "SD_DEVICE_CALCFG_REQUEST", sender_id |-> k,
   channel_number |-> IndexOf(DeviceCfg[ChannelCfg[m.channel_id].device_id].channel_ids,
                              m.channel_id),
   command |-> m.command, datatype |-> m.datatype, data |-> m.data]

\* the calcfg result the claim has the client receive for the answer m of device d
C15_Result(d, m) ==
  [call |-> "SC_DEVICE_CALCFG_RESULT",
   channel_id |-> DeviceCfg[d].channel_ids[m.channel_number + 1],
   command |-> m.command, result |-> m.result, data |-> m.data]

C15_IsRequest(m) == m.call = "SD_DEVICE_CALCFG_REQUEST"

\* the calcfg requests the connection of device d was sent and will be sent for
\* the events of its queue, without the authorization flag
C15_DevicePipeline(d) ==
  LET c == DevConn(d)
      IsCfg(e) == e.id = "DEVICE_CONFIG"
      o == SelectSeq(outbox[c], C15_IsRequest)
      q == SelectSeq(queue[c], IsCfg)
  IN [i \in 1..Len(o) |->
        [call |-> o[i].call, sender_id |-> o[i].sender_id,
         channel_number |-> o[i].channel_number, command |-> o[i].command,
         datatype |-> o[i].datatype, data |-> o[i].data]]
     \o [i \in 1..Len(q) |-> C15_Request(q[i].args[2], q[i].args[1])]

\* the calcfg results the connection of client k was sent and will be sent for
\* the events of its queue
C15_ClientPipeline(k) ==
  LET c == CliConn(k)
      IsRes(m) == m.call = "SC_DEVICE_CALCFG_RESULT"
      IsResEvent(e) == e.id = "DEVICE_CONFIG_RESULT"
      q == SelectSeq(queue[c], IsResEvent)
  IN SelectSeq(outbox[c], IsRes)
     \o [i \in 1..Len(q) |->
           [call |-> "SC_DEVICE_CALCFG_RESULT", channel_id |-> q[i].args[2],
            command |-> q[i].args[1].command, result |-> q[i].args[1].result,
            data |-> q[i].args[1].data]]

\* client k was sent SC_SUPERUSER_AUTHORIZATION_RESULT{AUTHORIZED}
C15_Passed(k) ==
  \E i \in 1..Len(outbox[CliConn(k)]) :
    outbox[CliConn(k)][i] = [call |-> "SC_SUPERUSER_AUTHORIZATION_RESULT",
                             result |-> "AUTHORIZED"]

\* every SD_DEVICE_CALCFG_REQUEST a device was sent with super_user_authorized set
\* names a client that passed a superuser authorization request before
C15_AuthorizedOnlyIfPassed ==
  \A d \in Devices : \A i \in 1..Len(outbox[DevConn(d)]) :
    LET m == outbox[DevConn(d)][i]
    IN (C15_IsRequest(m) /\ m.super_user_authorized) => C15_Passed(m.sender_id)

\* an accepted CS_DEVICE_CALCFG_REQUEST_B of client k adds exactly one request
\* {sender_id k, channel_number index of the channel, command, datatype, data copied}
\* to what the owning device gets; an accepted DS_DEVICE_CALCFG_RESULT{receiver_id k,
\* channel_number n} adds exactly one SC_DEVICE_CALCFG_RESULT to what client k gets;
\* a request written to a device carries the client's authorized flag
C15_CalcfgStep ==
  /\ IF last'.op = "calcfg_request" /\ calls' = calls + 1 /\ last'.accepted
     THEN /\ \A d \in Devices :
               C15_DevicePipeline(d)'
                 = IF d = ChannelCfg[last'.msg.channel_id].device_id
                   THEN Append(C15_DevicePipeline(d),
                               C15_Request(ctxId[last'.conn], last'.msg))
                   ELSE C15_DevicePipeline(d)
          /\ \A j \in 1..MaxClients : C15_ClientPipeline(j)' = C15_ClientPipeline(j)
     ELSE IF last'.op = "calcfg_result" /\ calls' = calls + 1 /\ last'.accepted
     THEN /\ \A j \in 1..MaxClients :
               C15_ClientPipeline(j)'
                 = IF j = last'.msg.receiver_id
                   THEN Append(C15_ClientPipeline(j),
                               C15_Result(ctxId[last'.conn], last'.msg))
                   ELSE C15_ClientPipeline(j)
          /\ \A d \in Devices : C15_DevicePipeline(d)' = C15_DevicePipeline(d)
     ELSE /\ \A d \in Devices : C15_DevicePipeline(d)' = C15_DevicePipeline(d)
          /\ \A j \in 1..MaxClients : C15_ClientPipeline(j)' = C15_ClientPipeline(j)
  /\ \A d \in Devices :
       LET o == outbox'[DevConn(d)]
       IN (Len(o) > Len(outbox[DevConn(d)]) /\ C15_IsRequest(o[Len(o)]))
          => o[Len(o)].super_user_authorized = authorized[o[Len(o)].sender_id]

\* C15: the calcfg request of client k reaches the device owning the channel with
\* sender_id k, the channel's index, command, datatype and data copied and
\* super_user_authorized equal to client k's authorized flag; the device's result for
\* receiver k reaches exactly client k with the channel id of the device's n-th
\* channel and command, result and data copied; super_user_authorized is set only
\* for a client that passed a superuser authorization request before.
C15_CalcfgRoundTrip == []C15_AuthorizedOnlyIfPassed /\ [][C15_CalcfgStep]_vars

\* C15 witness: the last client passed the authorization, asked calcfg of channel 2,
\* device 1 was sent the request with super_user_authorized set and answered, and
\* the client was sent the result for channel 2
C15_Witness ==
  /\ C15_Passed(MaxClients)
  /\ LastOf(outbox[DevConn(1)])
       = [call |-> "SD_DEVICE_CALCFG_REQUEST", sender_id |-> MaxClients,
          channel_number |-> 1, command |-> 31, super_user_authorized |-> TRUE,
          datatype |-> 42, data |-> "foobar"]
  /\ LastOf(outbox[CliConn(MaxClients)])
       = [call |-> "SC_DEVICE_CALCFG_RESULT", channel_id |-> 2, command |-> 12,
          result |-> 23, data |-> "barbaz"]
  /\ \A i \in 1..Len(outbox[CliConn(1)]) :
       outbox[CliConn(1)][i].call # "SC_DEVICE_CALCFG_RESULT"

\* the channel id the request of the last step names
C16_ChannelOf ==
  IF last.op = "execute_action" THEN last.msg.subject_id
  ELSE IF last.op = "set_value" THEN last.msg.value_id
  ELSE last.msg.channel_id

\* the last step was a client request naming a channel id that does not exist
C16_UnknownChannelRequest ==
  /\ last.op \in {"execute_action", "set_value", "get_channel_config",
                  "get_channel_state", "calcfg_request"}
  /\ ~ChannelExists(C16_ChannelOf)

\* C16: after a client request that names a channel id that does not exist
\* (CS_EXECUTE_ACTION, CS_SET_VALUE, CS_GET_CHANNEL_CONFIG, CSD_GET_CHANNEL_STATE,
\* CS_DEVICE_CALCFG_REQUEST_B) the client connection is not marked errored and stays
\* open and registered, and the reply, where the call has one, is negative.
C16_RequestErrorsKeepOpen ==
  C16_UnknownChannelRequest
  => /\ ~error[last.conn]
     /\ \E k \in 1..MaxClients : RegisteredAsClient(last.conn, k)
     /\ last.op = "execute_action"
          => LastOf(outbox[last.conn]) = ActionExecutionResult("FALSE", last.msg)
     /\ last.op = "get_channel_config" => LastOf(outbox[last.conn]).result = "FALSE"

\* the step is a CS_SET_VALUE whose target is not CHANNEL or whose value_id is not
\* an existing channel id
C19_InvalidSetStep ==
  /\ calls' = calls + 1
  /\ last'.op = "set_value"
  /\ last'.msg.target # "CHANNEL" \/ ~ChannelExists(last'.msg.value_id)

C19_InvalidSetValueStep ==
  C19_InvalidSetStep
  => /\ UNCHANGED <<chValue, lastValue>>
     /\ UNCHANGED <<serverEvents, queue>>
     /\ \A d \in Devices : C9_DevicePipeline(d)' = C9_DevicePipeline(d)
     /\ UNCHANGED outbox
     /\ ~error'[last'.conn] /\ connState'[last'.conn] = "open"
     /\ UNCHANGED <<ctxKind, ctxId>>

\* C19: a CS_SET_VALUE whose target is not CHANNEL, or whose value_id is not an
\* existing channel id, changes no channel value, queues no CHANNEL_SET_VALUE event,
\* makes no device receive SD_CHANNEL_SET_VALUE, sends no reply, and leaves the
\* client connection open.
C19_InvalidSetValueDropped == [][C19_InvalidSetValueStep]_vars

\* C19 witness: the client's second call was a CS_SET_VALUE for target IODEVICE;
\* no value changed, nothing was sent to the device or the client, and the client
\* is still registered
C19_Witness ==
  /\ last.op = "set_value" /\ last.msg.target = "IODEVICE" /\ ~last.accepted
  /\ calls = 2 /\ serverEvents = <<>>
  /\ chValue = [ch \in Channels |-> Zero8]
  /\ outbox[DevConn(1)] = <<RegisterDeviceResult("TRUE")>>
  /\ Len(outbox[CliConn(1)]) = Len(<<RegisterClientResult("TRUE", 1)>>
                                   \o send_locations \o send_channels \o send_scenes)
  /\ RegisteredAsClient(CliConn(1), 1) /\ ~error[CliConn(1)]

\* the step is a DSC_CHANNEL_STATE_RESULT whose receiver_id is not a known client
\* or whose channel_number is not a channel of the device, or a
\* DS_DEVICE_CHANNEL_VALUE_CHANGED whose channel_number is not a channel of the device
C17_MisbehaviourStep ==
  /\ calls' = calls + 1
  /\ \/ /\ last'.op = "channel_state_result"
        /\ \/ ~ClientExists(last'.msg.receiver_id)
           \/ last'.msg.channel_number >= Len(DeviceCfg[ctxId[last'.conn]].channel_ids)
     \/ last'.op = "value_changed" /\ last'.raised

C17_DroppedStep ==
  C17_MisbehaviourStep
  => /\ UNCHANGED <<stateVars, channelTable, queue, serverEvents>>
     /\ ~error'[last'.conn]
     /\ connState'[last'.conn] = "open"
     /\ online'[ctxId[last'.conn]]

\* C17: a DSC_CHANNEL_STATE_RESULT whose receiver_id is not a known client id or
\* whose channel_number is not a channel of the device, and a
\* DS_DEVICE_CHANNEL_VALUE_CHANGED whose channel_number is not a channel of the
\* device, change no state, queue no event, and leave the device connection open,
\* not errored, and the device online.
C17_MisbehaviourDropped == [][C17_DroppedStep]_vars

\* the step is a DS_CHANNEL_SET_VALUE_RESULT whose channel_number is not a channel
\* of the device, or a DS_DEVICE_CALCFG_RESULT whose receiver_id is not a known
\* client or whose channel_number is not a channel of the device
C18_InvalidResultStep ==
  /\ calls' = calls + 1
  /\ \/ /\ last'.op = "set_value_result"
        /\ last'.msg.channel_number >= Len(DeviceCfg[ctxId[last'.conn]].channel_ids)
     \/ /\ last'.op = "calcfg_result"
        /\ \/ ~ClientExists(last'.msg.receiver_id)
           \/ last'.msg.channel_number >= Len(DeviceCfg[ctxId[last'.conn]].channel_ids)

C18_NoEventStep ==
  C18_InvalidResultStep
  => /\ UNCHANGED <<serverEvents, queue>>
     /\ UNCHANGED outbox
     /\ \A k \in 1..MaxClients :
          clientOnline[k] => /\ C7_ClientPipeline(k)' = C7_ClientPipeline(k)
                             /\ C15_ClientPipeline(k)' = C15_ClientPipeline(k)
     /\ ~error'[last'.conn]
     /\ connState'[last'.conn] = "open"

\* C18: a DS_CHANNEL_SET_VALUE_RESULT whose channel_number is not a channel of the
\* device, and a DS_DEVICE_CALCFG_RESULT whose receiver_id is not a known client or
\* whose channel_number is not a channel of the device, queue no event, send nothing
\* to any client now or later, and leave the device connection open and not errored.
C18_InvalidResultDropped == [][C18_NoEventStep]_vars

\* C18 witness: device 1 sent a calcfg result for a client that does not exist after
\* a set value result for channel number 42; no event is queued, the client was sent
\* nothing after its registration, and the device is still registered
C18_Witness ==
  /\ last.op = "calcfg_result" /\ ~ClientExists(last.msg.receiver_id)
  /\ last.conn = DevConn(1) /\ calls = 2
  /\ serverEvents = <<>> /\ \A c \in Conns : queue[c] = <<>>
  /\ outbox[CliConn(1)] = <<RegisterClientResult("TRUE", 1)>>
                          \o send_locations \o send_channels \o send_scenes
  /\ chValue = [ch \in Channels |-> Zero8]
  /\ RegisteredAsDevice(DevConn(1), 1) /\ ~error[DevConn(1)]

\* the handlers declared for a server event, in the order of their declaration
C20_Registered(id) ==
  IF id = "DEVICE_CONNECTED" THEN <<"device_connected", "device_connected_with_extra">>
  ELSE IF id = "DEVICE_DISCONNECTED" THEN <<"device_disconnected">>
  ELSE IF id = "CLIENT_CONNECTED" THEN <<"client_connected">>
  ELSE <<>>

\* start and finish of every handler of the event with this serial, in order
C20_EventLog(serial, id) ==
  LET hs == C20_Registered(id)
  IN [i \in 1..(2 * Len(hs)) |->
        [kind |-> IF i % 2 = 1 THEN "start" ELSE "finish", serial |-> serial,
         func |-> hs[(i + 1) \div 2]]]

\* the log of handling the first n events added, one after the other
RECURSIVE C20_ExpectedLog(_)
C20_ExpectedLog(n) ==
  IF n = 0 THEN <<>>
  ELSE C20_ExpectedLog(n - 1) \o C20_EventLog(n, dispatch.added[n])

\* C20: the handler starts and finishes so far are a prefix of handling the events
\* in the order they were added, each event by every handler registered for it
\* exactly once in registration order, a handler finishing before the next starts
\* and all handlers of an event finishing before the first of the next event
\* starts, whenever the events were added; once the queue is drained every handler
\* of every event has run.
C20_DispatchInOrder ==
  LET expected == C20_ExpectedLog(Len(dispatch.added))
      log == dispatch.log
  IN /\ Len(log) <= Len(expected)
     /\ log = SubSeq(expected, 1, Len(log))
     /\ dispatch.running <=> Len(log) % 2 = 1
     /\ (serverEvents = <<>> /\ dispatch.cur = <<>>) => log = expected

\* C20 witness: DEVICE_CONNECTED, DEVICE_DISCONNECTED and an event without handler
\* were added and the queue is drained: both handlers of the first event ran in
\* the order of their declaration before the handler of the second
C20_Witness ==
  /\ dispatch.added = <<"DEVICE_CONNECTED", "DEVICE_DISCONNECTED", "CHANNEL_SET_VALUE">>
  /\ serverEvents = <<>> /\ dispatch.cur = <<>>
  /\ dispatch.log
       = <<[kind |-> "start", serial |-> 1, func |-> "device_connected"],
           [kind |-> "finish", serial |-> 1, func |-> "device_connected"],
           [kind |-> "start", serial |-> 1, func |-> "device_connected_with_extra"],
           [kind |-> "finish", serial |-> 1, func |-> "device_connected_with_extra"],
           [kind |-> "start", serial |-> 2, func |-> "device_disconnected"],
           [kind |-> "finish", serial |-> 2, func |-> "device_disconnected"]>>

\* a registered connection keeps the entity it is registered as, a connection
\* that failed to register stays unregistered, and a closed one stays closed
C21_ConnStep(c) ==
  /\ ctxKind[c] # "base" => ctxKind'[c] = ctxKind[c] /\ ctxId'[c] = ctxId[c]
  /\ (ctxKind[c] = "base" /\ error[c]) => ctxKind'[c] = "base"
  /\ error[c] => error'[c]
  /\ connState[c] = "closed" => connState'[c] = "closed"

\* C21: a connection's registration state only moves UNREGISTERED ->
\* REGISTERED_AS_DEVICE or REGISTERED_AS_CLIENT -> CLOSING -> CLOSED: a connection is
\* registered at most once and keeps the device or client it registered as, a
\* failed registration leaves it unregistered, and CLOSED is never left.
C21_RegisteredOnce == [][\A c \in Conns : C21_ConnStep(c)]_vars

\* connection c ends in this step
C22_Ends(c) == ConnOpen(c) /\ connState'[c] = "closed"

\* C22: when the connection of a registered device ends, the device becomes offline
\* and DEVICE_DISCONNECTED(device_id) is added to the server queue, behind the
\* DEVICE_CONNECTED of the session; likewise CLIENT_DISCONNECTED for a registered
\* client; so the same GUID can register again.
C22_EndStep ==
  \A c \in Conns :
    C22_Ends(c)
    => /\ \A d \in Devices :
            (online[d] /\ devEvents[d] = c)
            => /\ ~online'[d]
               /\ serverEvents' = Append(serverEvents, Event("DEVICE_DISCONNECTED", <<d>>))
       /\ \A k \in DOMAIN clientOnline :
            (clientOnline[k] /\ cliEvents[k] = c)
            => /\ ~clientOnline'[k]
               /\ serverEvents' = Append(serverEvents, Event("CLIENT_DISCONNECTED", <<k>>))

\* C22: every step in which a connection ends takes the devices and clients
\* registered on it offline and queues their DEVICE_DISCONNECTED / CLIENT_DISCONNECTED.
C22_DisconnectOnEnd == [][C22_EndStep]_vars

(***************************************************************************)
(* C24: DCS_SET_ACTIVITY_TIMEOUT with a requested byte r sets the           *)
(* connection's activity_timeout to min(240, max(30, r)) and answers        *)
(* SDC_SET_ACTIVITY_TIMEOUT_RESULT with that value, min 30 and max 240; a   *)
(* connection's activity_timeout, and the one a positive register result    *)
(* reports, is always within 30..240.                                       *)
(***************************************************************************)
C24_Expected(r) == IF r < 30 THEN 30 ELSE IF r > 240 THEN 240 ELSE r

C24_SetStep ==
  last'.op = "set_activity_timeout" /\ calls' = calls + 1 =>
    LET c == last'.conn
        r == last'.msg.activity_timeout
    IN /\ activity'[c].timeout = C24_Expected(r)
       /\ outbox'[c] = Append(outbox[c],
                              [call |-> "SDC_SET_ACTIVITY_TIMEOUT_RESULT",
                               activity_timeout |-> C24_Expected(r), min |-> 30, max |-> 240])
       /\ \A o \in Conns \ {c} : activity'[o] = activity[o] /\ outbox'[o] = outbox[o]

\* the positive register results sent on connection c
C24_Registered(c) ==
  {i \in 1..Len(outbox[c]) :
     /\ outbox[c][i].call \in {"SD_REGISTER_DEVICE_RESULT", "SC_REGISTER_CLIENT_RESULT_D"}
     /\ outbox[c][i].result_code = "TRUE"}

C24_InRange ==
  \A c \in Conns :
    /\ activity[c].timeout \in 30..240
    /\ \A i \in C24_Registered(c) : outbox[c][i].activity_timeout \in 30..240

\* a register step reports the timeout its connection has
C24_RegisterStep ==
  \A c \in Conns :
    \A i \in C24_Registered(c)' \ C24_Registered(c) :
      outbox'[c][i].activity_timeout = activity[c].timeout

C24_ActivityTimeoutClamped == []C24_InRange /\ [][C24_SetStep /\ C24_RegisterStep]_vars

\* a request above the range was clamped to 240, and the register result sent
\* afterwards on that connection reports 240
C24_Witness ==
  \E c \in Conns :
    /\ activity[c].timeout = 240
    /\ \E i \in 1..Len(outbox[c]) :
         /\ outbox[c][i].call = "SDC_SET_ACTIVITY_TIMEOUT_RESULT"
         /\ outbox[c][i].activity_timeout = 240
         /\ \E j \in C24_Registered(c) : j > i /\ outbox[c][j].activity_timeout = 240

(***************************************************************************)
(* C23: a registered connection from which no packet is received for its    *)
(* activity_timeout seconds is closed by the server and its device goes     *)
(* offline; a connection that sends a packet within every window of         *)
(* activity_timeout seconds is never closed by the watchdog.                *)
(***************************************************************************)
\* an open connection is never silent for longer than its window
C23_WithinWindow ==
  \A c \in Conns : ConnOpen(c) => activity[c].idle <= activity[c].timeout

\* the watchdog closes a connection only after activity_timeout silent seconds,
\* and the device registered on it is offline afterwards
C23_CloseStep ==
  \A c \in Conns :
    ConnOpen(c) /\ connState'[c] = "closed" =>
      /\ activity[c].idle >= activity[c].timeout
      /\ ctxKind[c] = "device" => ~online'[ctxId[c]]

\* every packet starts the window of its connection again
C23_PacketStep ==
  calls' = calls + 1 => activity'[last'.conn].idle = 0

\* a connection silent for its whole window is closed, unless a packet of it
\* arrives in that very second
C23_Silent(c) == ConnOpen(c) /\ activity[c].idle >= activity[c].timeout
C23_Settled(c) == ~ConnOpen(c) \/ activity[c].idle = 0

C23_ActivityWatchdog ==
  /\ []C23_WithinWindow
  /\ [][C23_CloseStep /\ C23_PacketStep]_vars
  /\ \A c \in Conns : C23_Silent(c) ~> C23_Settled(c)

\* device 1 stayed silent for 30 seconds and was closed and is offline, while
\* device 2, which sent a packet in between, is still connected
C23_Witness ==
  /\ connState[DevConn(1)] = "closed" /\ ~online[1]
  /\ activity[DevConn(1)].idle = 30
  /\ ConnOpen(DevConn(2)) /\ online[2]
  /\ activity[DevConn(2)].idle < 30
  /\ Len(outbox[DevConn(2)]) > 1

(***************************************************************************)
(* C25: a packet whose call id has no registered call handler marks the     *)
(* connection errored, and the server closes that connection; nothing of    *)
(* the world state changes other than the disconnect of the peer            *)
(* registered on that connection.                                           *)
(***************************************************************************)
C25_Unhandled ==
  /\ calls' = calls + 1
  /\ last'.op = "call"
  /\ last'.call_id \in {"SD_REGISTER_DEVICE_RESULT", "SC_REGISTER_CLIENT_RESULT_D"}

\* the packet itself: the connection is errored, nothing else changed
C25_UnhandledStep ==
  C25_Unhandled =>
    /\ error' = [error EXCEPT ![last'.conn] = TRUE]
    /\ UNCHANGED <<stateVars, channelTable, connState, ctxKind, ctxId, queue, serverEvents, outbox>>

\* the end of a connection disconnects the peer registered on it, nobody else
C25_CloseStep ==
  \A c \in Conns :
    ConnOpen(c) /\ connState'[c] = "closed" =>
      /\ \A d \in Devices :
           online'[d] = (online[d] /\ ~(ctxKind[c] = "device" /\ ctxId[c] = d))
      /\ \A k \in DOMAIN clientOnline :
           clientOnline'[k] = (clientOnline[k] /\ ~(ctxKind[c] = "client" /\ ctxId[c] = k))
      /\ UNCHANGED <<chValue, lastValue, clientIds, authorized>>

\* an errored connection takes no further packet
C25_ErroredStep ==
  calls' = calls + 1 => ~error[last'.conn]

C25_UnhandledCallCloses ==
  /\ [][C25_UnhandledStep /\ C25_CloseStep /\ C25_ErroredStep]_vars
  /\ \A c \in Conns : (ConnOpen(c) /\ error[c]) ~> ~ConnOpen(c)

\* the server closed the connection of device 1 after its unhandled call:
\* device 1 is offline, device 2 and the client are still connected
C25_Witness ==
  /\ last.op = "close" /\ last.conn = DevConn(1) /\ last.by_server
  /\ error[DevConn(1)] /\ ~online[1]
  /\ online[2] /\ clientOnline[1]
  /\ ConnOpen(DevConn(2)) /\ ConnOpen(CliConn(1))

(***************************************************************************)
(* C26: CS_SUPERUSER_AUTHORIZATION_REQUEST answers AUTHORIZED and sets the  *)
(* requesting client's authorized flag exactly when email and password      *)
(* match the configured credentials; otherwise it answers UNAUTHORIZED and  *)
(* leaves every client's flag unchanged; no other step makes a flag true.   *)
(***************************************************************************)
C26_IsRequest == calls' = calls + 1 /\ last'.op = "superuser_authorization"

C26_Match(msg) == msg.email = "email@email.com" /\ msg.password = "password123"

C26_Answer(result) == [call |-> "SC_SUPERUSER_AUTHORIZATION_RESULT", result |-> result]

C26_RequestStep ==
  C26_IsRequest =>
    LET c == last'.conn
        k == ctxId[c]
    IN /\ ctxKind[c] = "client"
       /\ \A o \in Conns \ {c} : outbox'[o] = outbox[o]
       /\ IF C26_Match(last'.msg)
          THEN /\ outbox'[c] = Append(outbox[c], C26_Answer("AUTHORIZED"))
               /\ authorized' = [authorized EXCEPT ![k] = TRUE]
          ELSE /\ outbox'[c] = Append(outbox[c], C26_Answer("UNAUTHORIZED"))
               /\ authorized' = authorized

C26_OtherStep ==
  ~C26_IsRequest => \A k \in DOMAIN authorized : authorized'[k] => authorized[k]

C26_AuthorizedByCredentials == [][C26_RequestStep /\ C26_OtherStep]_vars

\* client 1 is authorized, and a request with the right password but another
\* email was just answered UNAUTHORIZED to client 2, which is not authorized
C26_Witness ==
  /\ authorized[1] /\ ~authorized[2]
  /\ last.op = "superuser_authorization"
  /\ ctxKind[last.conn] = "client" /\ ctxId[last.conn] = 2
  /\ last.msg.email = "other@email.com" /\ last.msg.password = "password123"
  /\ outbox[last.conn][Len(outbox[last.conn])] = C26_Answer("UNAUTHORIZED")

(***************************************************************************)
(* C27: client ids are stable.  The first registration of a client GUID     *)
(* creates a client with a new client_id, every later registration of the   *)
(* same GUID returns the same client_id, and two different GUIDs never      *)
(* share a client_id.                                                       *)
(***************************************************************************)
C27_Ids == {clientIds[g] : g \in {h \in ClientGuids : clientIds[h] # 0}}

C27_Distinct ==
  \A g, h \in ClientGuids : g # h /\ clientIds[g] # 0 => clientIds[g] # clientIds[h]

\* an id, once given, stays
C27_KeepStep == \A g \in ClientGuids : clientIds[g] # 0 => clientIds'[g] = clientIds[g]

\* a registration answers with the id of its GUID, a new one for a new GUID
C27_RegisterStep ==
  calls' = calls + 1 /\ last'.op = "register_client" =>
    LET c == last'.conn
        g == last'.guid
        result == outbox'[c][Len(outbox'[c])]
    IN /\ Len(outbox'[c]) = Len(outbox[c]) + 1
       /\ result.call = "SC_REGISTER_CLIENT_RESULT_D"
       /\ result.client_id = clientIds'[g]
       /\ clientIds'[g] # 0
       /\ clientIds[g] = 0 => clientIds'[g] \notin C27_Ids /\ result.result_code = "TRUE"
       /\ \A h \in ClientGuids \ {g} : clientIds'[h] = clientIds[h]

C27_ClientIdsStable == []C27_Distinct /\ [][C27_KeepStep /\ C27_RegisterStep]_vars

\* the positive register results on connection c that name client k
C27_Results(c, k) ==
  {i \in 1..Len(outbox[c]) :
     /\ outbox[c][i].call = "SC_REGISTER_CLIENT_RESULT_D"
     /\ outbox[c][i].result_code = "TRUE"
     /\ outbox[c][i].client_id = k}

\* a GUID registered, its connection closed, and its registration on another
\* connection was answered with the same client_id
C27_Witness ==
  \E g \in ClientGuids, c1, c2 \in Conns :
    /\ c1 # c2 /\ clientIds[g] # 0
    /\ connState[c1] = "closed" /\ C27_Results(c1, clientIds[g]) # {}
    /\ last.op = "register_client" /\ last.conn = c2 /\ last.guid = g
    /\ C27_Results(c2, clientIds[g]) # {}

(***************************************************************************)
(* C28: on one connection at most one send is in progress at any time.      *)
(* When the reader loop and the event loop send concurrently, the framed    *)
(* packets are on the wire one after the other, never interleaved, in the   *)
(* order their sends complete.                                              *)
(***************************************************************************)
C28_Sending == {s \in Senders : stream.senders[s].pc = "sending"}

RECURSIVE C28_Frames(_)
C28_Frames(packets) ==
  IF packets = <<>> THEN <<>>
  ELSE LET p == Head(packets)
       IN Frame(p.version, p.rr_id, p.call_id, p.data) \o C28_Frames(Tail(packets))

\* the bytes of its packet a sender wrote so far
C28_Written(s) ==
  LET sender == stream.senders[s]
      bytes == Frame(sender.packet.version, sender.packet.rr_id, sender.packet.call_id,
                     sender.packet.data)
  IN IF sender.written = 0 THEN <<>>
     ELSE IF sender.written = 1 THEN SubSeq(bytes, 1, HEADER_SIZE)
     ELSE bytes

\* what a peer reads from the bytes: the packets, in order, as recv returns them
RECURSIVE C28_Read(_)
C28_Read(bytes) ==
  LET result == Recv(bytes, 1)
  IN IF result.status = "packet"
     THEN <<[call_id |-> result.call_id, data |-> result.data]>>
            \o C28_Read(SubSeq(bytes, result.size + 1, Len(bytes)))
     ELSE IF result.status = "error" THEN <<result>>
     ELSE <<>>

\* the packets written in full: those whose send completed, then the one of a
\* sender that has not released the mutex yet
C28_OnWire ==
  LET full == {s \in C28_Sending : stream.senders[s].written = 2}
  IN IF full = {} THEN stream.sent
     ELSE Append(stream.sent, stream.senders[CHOOSE s \in full : TRUE].packet)

C28_SendsSerialised ==
  /\ Cardinality(C28_Sending) <= 1
  /\ \A s \in C28_Sending :
       /\ stream.lock = s
       /\ stream.wire = C28_Frames(stream.sent) \o C28_Written(s)
  /\ C28_Sending = {} => stream.lock = "" /\ stream.wire = C28_Frames(stream.sent)
  /\ C28_Read(stream.wire) =
       [i \in 1..Len(C28_OnWire) |->
          [call_id |-> C28_OnWire[i].call_id, data |-> C28_OnWire[i].data]]
  /\ \A i \in 1..Len(stream.sent) : stream.sent[i].rr_id = i

\* the event loop waits for the mutex while the reader loop, whose send began
\* after a send of the event loop completed, has written the header of its reply
C28_Witness ==
  /\ Len(stream.sent) = 1 /\ stream.sent[1].call_id = CallNumber.SD_CHANNEL_SET_VALUE
  /\ stream.senders["reader"].pc = "sending" /\ stream.senders["reader"].written = 1
  /\ stream.senders["events"].pc = "waiting"

(***************************************************************************)
(* C30: recv on bytes that do not begin with the start tag SUPLA, that      *)
(* carry a version below the supported minimum, whose header cannot be      *)
(* decoded, or whose packet does not end with the end tag SUPLA raises      *)
(* NetworkError and returns no packet; a well-formed packet that was sent   *)
(* is returned by recv with the same call id and payload.                   *)
(***************************************************************************)
\* recv read what the step before wrote
C30_Recv == last.op = "write" /\ last'.op = "recv"

C30_WellFormed == last.written.kind = "none" /\ last.written.packet.version >= stream.min_version

C30_RecvStep ==
  C30_Recv =>
    LET written == last.written
        result == last'.result
    IN /\ stream'.received = <<result>>
       /\ IF C30_WellFormed
          THEN /\ result.status = "packet"
               /\ result.call_id = written.packet.call_id
               /\ result.data = written.packet.data
               /\ ~stream'.failed
          ELSE /\ result.status = "error"
               /\ stream'.failed
       /\ written.kind = "start tag" => result.error = "incorrect start tag"
       /\ written.kind = "header" => result.error = "failed to decode header"
       /\ written.kind = "none" /\ ~C30_WellFormed =>
            result.error = "proto version not supported"
       /\ written.kind = "end tag" /\ written.packet.version >= stream.min_version =>
            result.error = "incorrect end tag"

\* a stream that raised returns nothing afterwards
C30_FailedStep == stream.failed => stream'.received = stream.received

C30_FramingIntegrity == [][C30_RecvStep /\ C30_FailedStep]_vars

\* recv returned the packet whose payload reads like the tag, with its call id
C30_Witness ==
  /\ last.op = "recv"
  /\ stream.received =
       <<RecvPacket(CallNumber.SC_SUPERUSER_AUTHORIZATION_RESULT, SUPLA_TAG, 28)>>
  /\ stream.min_version = 19

\* recv raised for a packet of the minimum version whose end tag has a wrong byte
C30_WitnessEndTag ==
  /\ last.op = "recv" /\ stream.failed /\ stream.min_version = 19
  /\ stream.received = <<NetworkError("incorrect end tag")>>

(***************************************************************************)
(* C29: when a device connects or disconnects, every connected client       *)
(* receives SC_CHANNELVALUE_PACK_UPDATE_B packs that list each channel of   *)
(* that device exactly once in channel order, with its stored value and     *)
(* with online equal to the device's online state; only the last item of a  *)
(* pack has eol true, and the final pack has total_left 0.                  *)
(***************************************************************************)
C29_IsEvent(e) == e.id \in {"DEVICE_CONNECTED", "DEVICE_DISCONNECTED"}

\* the items of a sequence of packs, pack after pack
RECURSIVE C29_Items(_)
C29_Items(packs) ==
  IF packs = <<>> THEN <<>> ELSE Head(packs).items \o C29_Items(Tail(packs))

\* the packs list the channels of device d as C29 states
C29_Packs(packs, d) ==
  LET ids == DeviceCfg[d].channel_ids
      items == C29_Items(packs)
  IN /\ Len(packs) >= 1
     /\ Len(items) = Len(ids)
     /\ \A i \in 1..Len(ids) :
          /\ items[i].id = ids[i]
          /\ items[i].value = chValue[ids[i]]
          /\ items[i].online = online[d]
     /\ \A b \in 1..Len(packs) :
          /\ packs[b].call = "SC_CHANNELVALUE_PACK_UPDATE_B"
          /\ Len(packs[b].items) \in 1..20
          /\ \A i \in 1..Len(packs[b].items) :
               packs[b].items[i].eol = (i = Len(packs[b].items))
          /\ (b = Len(packs)) = (packs[b].total_left = 0)

\* the device's connect and disconnect put one event on the server queue
C29_EmitStep ==
  \A d \in Devices :
    /\ ~online[d] /\ online'[d] =>
         serverEvents'[Len(serverEvents')] = Event("DEVICE_CONNECTED", <<d>>)
    /\ online[d] /\ ~online'[d] =>
         serverEvents' = Append(serverEvents, Event("DEVICE_DISCONNECTED", <<d>>))

\* the server event loop hands the event to every connected client, once
C29_ForwardStep ==
  (last'.op = "server_event" /\ serverEvents # <<>> /\ serverEvents' = Tail(serverEvents)
     /\ C29_IsEvent(Head(serverEvents))) =>
    \A k \in DOMAIN clientOnline :
      clientOnline[k] => queue'[cliEvents[k]] = Append(queue[cliEvents[k]], Head(serverEvents))

\* the event loop of a client sends the packs for the event it takes
C29_HandleStep ==
  \A k \in DOMAIN clientOnline :
    LET c == cliEvents[k]
    IN (clientOnline[k] /\ last'.op = "event" /\ last'.conn = c /\ queue[c] # <<>>
          /\ queue'[c] = Tail(queue[c]) /\ C29_IsEvent(Head(queue[c]))) =>
         /\ Len(outbox'[c]) > Len(outbox[c])
         /\ SubSeq(outbox'[c], 1, Len(outbox[c])) = outbox[c]
         /\ C29_Packs(SubSeq(outbox'[c], Len(outbox[c]) + 1, Len(outbox'[c])),
                      Head(queue[c]).args[1])

C29_DeviceConnectFanOut == [][C29_EmitStep /\ C29_ForwardStep /\ C29_HandleStep]_vars

\* both clients were sent the pack for device 1, connected with mixed values:
\* its three channels, online, with those values
C29_Witness ==
  /\ online[1] /\ chValue[1] = Bytes8
  /\ last.op = "event"
  /\ \A k \in 1..2 :
       /\ clientOnline[k] /\ queue[CliConn(k)] = <<>>
       /\ LET pack == outbox[CliConn(k)][Len(outbox[CliConn(k)])]
          IN /\ pack.call = "SC_CHANNELVALUE_PACK_UPDATE_B"
             /\ Len(pack.items) = 3
             /\ pack.items[1].online /\ pack.items[1].value = Bytes8

(***************************************************************************)
(* C31: when only a proper prefix of a packet has arrived, recv neither     *)
(* returns a packet nor fails; if that recv is cancelled the bytes already  *)
(* received are not lost, and once the remaining bytes arrive a later recv  *)
(* returns the complete packet.                                             *)
(***************************************************************************)
\* the bytes of the packets the peer sent
C31_Bytes ==
  IF stream.sent = <<>> THEN <<>>
  ELSE Frame(stream.sent[1].version, stream.sent[1].rr_id, stream.sent[1].call_id,
             stream.sent[1].data)

\* nothing is returned and nothing is lost before the whole packet arrived; what
\* is returned then is the packet sent
C31_Resumes ==
  /\ ~stream.failed
  /\ stream.received = <<>> => stream.wire \o stream.unsent = C31_Bytes
  /\ stream.received # <<>> =>
       /\ stream.unsent = <<>> /\ stream.wire = <<>>
       /\ stream.received =
            <<[status |-> "packet", call_id |-> stream.sent[1].call_id,
               data |-> stream.sent[1].data, size |-> Len(C31_Bytes)]>>

\* a cancelled recv leaves the buffered bytes where they are
C31_CancelStep ==
  last'.op = "recv_cancel" =>
    /\ stream.reading /\ ~stream'.reading
    /\ stream'.wire = stream.wire
    /\ stream'.received = stream.received /\ stream'.unsent = stream.unsent

\* a recv waiting when all bytes are there returns the packet
C31_Ready == stream.reading /\ stream.sent # <<>> /\ stream.unsent = <<>>

C31_PartialRecv ==
  /\ []C31_Resumes
  /\ [][C31_CancelStep]_vars
  /\ C31_Ready ~> stream.received # <<>>

\* all but the last four bytes had arrived when a recv was cancelled; the rest
\* arrived and the next recv returned the packet
C31_Witness ==
  /\ last.op = "recv" /\ stream.number = 2
  /\ stream.received = <<RecvPacket(CallNumber.DCS_PING_SERVER, <<1, 2, 3, 4>>, 27)>>

(***************************************************************************)
(* C32: decoding the encoding of a valid message of a declared record type *)
(* gives back the message and the length of the encoding, also for a       *)
(* record whose array has its size field before another fixed field.       *)
(***************************************************************************)
C32_RoundTrip ==
  last.op = "codec" =>
    /\ last.data = encode(last.typ, last.msg)
    /\ decode(last.typ, last.data) = Decoded(last.msg, Len(last.data))
    /\ last.decoded = Decoded(last.msg, Len(last.data))

\* the message of test_field_encoding whose size field comes first
C32_Witness ==
  /\ last.op = "codec" /\ last.typ = "PackedArrayWithFieldOffsetMessage"
  /\ last.msg = [x |-> 66, y |-> <<[x |-> 1], [x |-> 2], [x |-> 3]>>]
  /\ last.data = <<3, 0, 66, 0, 0, 0, 1, 0, 0, 0, 2, 0, 0, 0, 3, 0, 0, 0>>
  /\ last.decoded.status = "ok"

\* a string shorter than its fixed field comes back without the padding
C32_WitnessString ==
  /\ last.op = "codec" /\ last.typ = "FixedStringMessage" /\ last.msg = [x |-> Foobar]
  /\ last.data = <<102, 111, 111, 98, 97, 114, 0, 0, 0, 0>>
  /\ last.decoded = Decoded([x |-> Foobar], 10)

(***************************************************************************)
(* C33: channel names are unique across the world: add_channel refuses a   *)
(* name that a channel of any device has, so get_channel_by_name returns   *)
(* the one channel of that name on every call, and raises KeyError for a   *)
(* name that was never added.                                              *)
(***************************************************************************)
C33_NamesUnique ==
  \A a, b \in 1..Len(channelTable) : channelTable[a].name = channelTable[b].name => a = b

\* an add_channel under a used name leaves the channels as they were
C33_AddRefusesDuplicate ==
  [][(last'.op = "add_channel"
      /\ \E id \in 1..Len(channelTable) : channelTable[id].name = last'.name)
     => channelTable' = channelTable]_vars

\* what the look-up does: the first channel of the name, KeyError for none
C33_LookupFirst ==
  last.op = "get_channel_by_name" =>
    IF \E id \in 1..Len(channelTable) : channelTable[id].name = last.name
    THEN /\ last.result \in 1..Len(channelTable)
         /\ channelTable[last.result].name = last.name
         /\ \A id \in 1..Len(channelTable) :
              channelTable[id].name = last.name => last.result <= id
    ELSE last.result = "KeyError"

\* "thermometer" is looked up while channels 2 and 5 have that name
C33_WitnessDuplicate ==
  /\ last.op = "get_channel_by_name" /\ last.name = "thermometer" /\ last.result = 2
  /\ Len(channelTable) = 5 /\ channelTable[5].name = "thermometer"

(***************************************************************************)
(* C34: the location pack, the channel packs and the scene pack a client   *)
(* gets after its registration are each sent in response to a CS_GET_NEXT  *)
(* of the client, not by the server on its own.                            *)
(***************************************************************************)
C34_Packs == {"SC_LOCATIONPACK_UPDATE", "SC_CHANNELPACK_UPDATE_D", "SC_SCENE_PACK_UPDATE"}

\* the step sends a pack on connection c
C34_SendsPack(c) ==
  /\ Len(outbox'[c]) > Len(outbox[c])
  /\ \E i \in (Len(outbox[c]) + 1)..Len(outbox'[c]) : outbox'[c][i].call \in C34_Packs

C34_PacksPumped ==
  [][\A c \in Conns : C34_SendsPack(c) => last' = [op |-> "get_next", conn |-> c]]_vars

\* what happens: a CS_GET_NEXT sends nothing, and the three packs are sent by
\* the event loop of the connection from the events register_client queued
C34_PacksProactive ==
  [][/\ last'.op = "get_next" => outbox' = outbox /\ queue' = queue
     /\ \A c \in Conns : C34_SendsPack(c) => last'.op = "event" /\ last'.conn = c]_vars

\* a client got its three packs and never sent CS_GET_NEXT
C34_WitnessUnpumped ==
  /\ calls = 1 /\ last.op = "event"
  /\ \E c \in Conns :
       /\ ctxKind[c] = "client" /\ queue[c] = <<>>
       /\ \A call \in C34_Packs : \E i \in 1..Len(outbox[c]) : outbox[c][i].call = call

(***************************************************************************)
(* C35: SEND_CHANNELS sends the channels in id order as consecutive        *)
(* SC_CHANNELPACK_UPDATE_D packs of at most CHANNELPACK_MAXCOUNT items,    *)
(* every pack but the last full; every channel is in exactly one pack; in  *)
(* each pack the last item alone has eol set; total_left of a pack is the  *)
(* number of channels not sent after it, so it falls from pack to pack     *)
(* and is 0 in the last.                                                   *)
(***************************************************************************)
\* the packs the step sent on connection c
C35_Sent(c) == SubSeq(outbox'[c], Len(outbox[c]) + 1, Len(outbox'[c]))

\* the ids of the items of packs, in the order sent
RECURSIVE C35_Ids(_)
C35_Ids(packs) ==
  IF packs = <<>> THEN <<>>
  ELSE [i \in 1..Len(Head(packs).items) |-> Head(packs).items[i].id] \o C35_Ids(Tail(packs))

\* the number of items of the first b packs
RECURSIVE C35_Count(_, _)
C35_Count(packs, b) == IF b = 0 THEN 0 ELSE Len(packs[b].items) + C35_Count(packs, b - 1)

C35_Packs(packs, n) ==
  /\ \A b \in 1..Len(packs) :
       /\ packs[b].call = "SC_CHANNELPACK_UPDATE_D"
       /\ Len(packs[b].items) \in 1..CHANNELPACK_MAXCOUNT
       /\ b < Len(packs) => Len(packs[b].items) = CHANNELPACK_MAXCOUNT
       /\ \A i \in 1..Len(packs[b].items) :
            packs[b].items[i].eol = (i = Len(packs[b].items))
       /\ packs[b].total_left = n - C35_Count(packs, b)
       /\ b > 1 => packs[b].total_left < packs[b - 1].total_left
  /\ C35_Ids(packs) = [id \in 1..n |-> id]
  /\ packs[Len(packs)].total_left = 0

\* the step that handles SEND_CHANNELS in a world that has channels
C35_ChannelPacks ==
  [][(last'.op = "event" /\ last'.event = "SEND_CHANNELS" /\ channelTable # <<>>)
     => /\ ~last'.raised
        /\ C35_Packs(C35_Sent(last'.conn), Len(channelTable))]_vars

\* 41 channels were sent as packs of 20, 20 and 1 with total_left 21, 1 and 0
C35_Witness ==
  /\ Len(channelTable) = 2 * CHANNELPACK_MAXCOUNT + 1
  /\ last.op = "event" /\ last.event = "SEND_CHANNELS" /\ last.conn = 2
  /\ Len(outbox[2]) = 5
  /\ [b \in 1..3 |-> outbox[2][b + 2].total_left] = <<CHANNELPACK_MAXCOUNT + 1, 1, 0>>
  /\ [b \in 1..3 |-> Len(outbox[2][b + 2].items)]
       = <<CHANNELPACK_MAXCOUNT, CHANNELPACK_MAXCOUNT, 1>>

(***************************************************************************)
(* C40: the handlers that build packs finish without raising for every     *)
(* configuration, also when there is nothing to send: SEND_CHANNELS in a    *)
(* world without channels, and DEVICE_CONNECTED / DEVICE_DISCONNECTED of a  *)
(* client for a device without channels; the event loop of the client goes *)
(* on to the next event (SEND_SCENES).                                      *)
(***************************************************************************)
C40_PackHandlersFinish ==
  (last.op = "event"
   /\ last.event \in {"SEND_CHANNELS", "DEVICE_CONNECTED", "DEVICE_DISCONNECTED"})
  => ~last.raised

\* what happens: with nothing to pack the handler raises and sends no pack,
\* the connection stays open and its loop handles the events that follow
C40_EmptyPackRaises ==
  [][(last'.op = "event"
      /\ last'.event \in {"SEND_CHANNELS", "DEVICE_CONNECTED", "DEVICE_DISCONNECTED"})
     => LET c == last'.conn
            ids == IF last'.event = "SEND_CHANNELS"
                   THEN [id \in 1..Len(channelTable) |-> id]
                   ELSE DeviceChannelIds(Head(queue[c]).args[1])
        IN /\ last'.raised = (ids = <<>>)
           /\ last'.raised => outbox'[c] = outbox[c]
           /\ ~last'.raised => Len(outbox'[c]) > Len(outbox[c])
           /\ error' = error /\ connState' = connState
           /\ queue'[c] = Tail(queue[c])]_vars

\* SEND_CHANNELS raised in a world without channels and SEND_SCENES was handled after it
C40_WitnessLoopGoesOn ==
  /\ channelTable = <<>>
  /\ last.op = "event" /\ last.event = "SEND_SCENES" /\ last.conn = 2
  /\ [i \in 1..Len(outbox[2]) |-> outbox[2][i].call]
       = <<"SC_REGISTER_CLIENT_RESULT_D", "SC_LOCATIONPACK_UPDATE", "SC_SCENE_PACK_UPDATE">>

(***************************************************************************)
(* C36: a rejected DS_REGISTER_DEVICE_E, whether a validation failed or    *)
(* the device is online already, leaves the world as it is: no online flag *)
(* and no event sink of a device changes, no channel value changes, no     *)
(* CHANNEL_REGISTER_VALUE and no DEVICE_CONNECTED is queued; the result     *)
(* reports the activity timeout 30.                                         *)
(***************************************************************************)
C36_Rejected == last'.op = "register_device" /\ last'.result_code = "FALSE"

C36_RejectedRegisterInert ==
  [][C36_Rejected =>
       LET c == last'.conn
       IN /\ online' = online /\ devEvents' = devEvents
          /\ chValue' = chValue /\ lastValue' = lastValue
          /\ serverEvents' = serverEvents /\ queue' = queue
          /\ ctxKind' = ctxKind /\ ctxId' = ctxId
          /\ outbox' = [outbox EXCEPT ![c] =
                          Append(@, [call |-> "SD_REGISTER_DEVICE_RESULT",
                                     result_code |-> "FALSE", activity_timeout |-> 30])]]_vars

\* device 1 is online on one connection; a valid registration of it on another
\* connection, whose activity timeout is 240, was rejected with timeout 30
C36_Witness ==
  /\ last.op = "register_device" /\ last.result_code = "FALSE"
  /\ last.msg = ValidRegister(1, MixedValues(1))
  /\ activity[last.conn].timeout = 240
  /\ online[1] /\ devEvents[1] # last.conn
  /\ chValue[1] = Zero8
  /\ outbox[last.conn][Len(outbox[last.conn])].activity_timeout = 30

\* a registration with a wrong product id was rejected
C36_WitnessInvalid ==
  /\ last.op = "register_device" /\ last.result_code = "FALSE"
  /\ last.msg.product_id = 42 /\ ~online[1] /\ serverEvents = <<>>

(***************************************************************************)
(* C37: a call of a role has an effect only on a connection registered in  *)
(* that role: CS_SET_VALUE or CS_EXECUTE_ACTION on a connection that is    *)
(* unregistered or registered as a device changes no channel value and     *)
(* queues no CHANNEL_SET_VALUE; DS_DEVICE_CHANNEL_VALUE_CHANGED on a       *)
(* connection not registered as a device changes no channel value.         *)
(***************************************************************************)
C37_ClientCall == last'.op \in {"set_value", "execute_action"}

C37_RoleCallsInert ==
  [][/\ (C37_ClientCall /\ ctxKind[last'.conn] # "client")
        => chValue' = chValue /\ serverEvents' = serverEvents
     /\ (last'.op = "value_changed" /\ ctxKind[last'.conn] # "device")
        => chValue' = chValue]_vars

\* what happens: the calls of a client act the same on every connection, the
\* call of a device on a connection of no device raises and changes nothing
C37_ClientCallsAnywhere ==
  [][/\ (last'.op = "set_value" /\ last'.accepted)
        => /\ chValue'[last'.msg.value_id] = last'.msg.value
           /\ serverEvents' # serverEvents
     /\ (last'.op = "execute_action" /\ last'.msg.action_id = "TURN_ON")
        => /\ chValue'[last'.msg.subject_id] = On8
           /\ serverEvents' # serverEvents
     /\ (last'.op = "value_changed" /\ ctxKind[last'.conn] # "device")
        => /\ last'.raised
           /\ chValue' = chValue /\ serverEvents' = serverEvents]_vars

\* a CS_SET_VALUE on the connection nothing registered on stored its value
C37_WitnessUnregistered ==
  /\ last.op = "set_value" /\ last.conn = CliConn(1) + 1
  /\ ctxKind[last.conn] = "base" /\ chValue[3] = Bytes8

(***************************************************************************)
(* C38: a DS_CHANNEL_SET_VALUE_RESULT with a channel number n the device    *)
(* has queues exactly one CHANNEL_VALUE_CHANGED(channel_id, v) on the       *)
(* server queue, channel_id being the n-th channel of the device and v the  *)
(* value stored for it, whatever success and sender_id are; the stored      *)
(* value stays, and every connected client gets one                         *)
(* SC_CHANNELVALUE_PACK_UPDATE_B with v.                                    *)
(***************************************************************************)
C38_ValidResult ==
  /\ last'.op = "set_value_result" /\ calls' = calls + 1
  /\ last'.msg.channel_number < Len(DeviceCfg[ctxId[last'.conn]].channel_ids)

C38_ResultStep ==
  IF C38_ValidResult
  THEN LET ch == DeviceCfg[ctxId[last'.conn]].channel_ids[last'.msg.channel_number + 1]
           v == chValue[ch]
       IN /\ serverEvents' = Append(serverEvents, Event("CHANNEL_VALUE_CHANGED", <<ch, v>>))
          /\ chValue' = chValue /\ lastValue' = lastValue
          /\ \A k \in DOMAIN clientOnline :
               clientOnline[k] =>
                 C7_ClientPipeline(k)' = Append(C7_ClientPipeline(k), C7_Pack(ch, v))
  ELSE \A k \in DOMAIN clientOnline :
         clientOnline[k] => C7_ClientPipeline(k)' = C7_ClientPipeline(k)

C38_ResultReportsStored == [][C38_ResultStep]_vars

\* device 1 sent an unsuccessful result for its channel number 2 while channel 3
\* held 01 02 03 04 05 06 07 08; every client was sent one pack with that value
C38_Witness ==
  /\ chValue[3] = Bytes8 /\ calls = 2
  /\ serverEvents = <<>> /\ \A c \in Conns : queue[c] = <<>>
  /\ \A k \in 1..MaxClients :
       /\ clientOnline[k]
       /\ Len(SelectSeq(outbox[cliEvents[k]], LAMBDA m : m = C7_Pack(3, Bytes8))) = 1

\* the result that was not successful
C38_WitnessFailure ==
  /\ last.op = "set_value_result" /\ ~last.msg.success /\ last.msg.sender_id = 0
  /\ last.msg.channel_number = 2 /\ last.conn = DevConn(1) /\ chValue[3] = Bytes8
  /\ serverEvents # <<>>
  /\ serverEvents[Len(serverEvents)] = Event("CHANNEL_VALUE_CHANGED", <<3, Bytes8>>)

(***************************************************************************)
(* C39: value updates are delivered in order: a client is sent the packs   *)
(* of the changes a device reported in the order the device reported them, *)
(* v1 before v2, and once all queues are drained the last value a client   *)
(* was sent for a channel is the value stored for it.                      *)
(***************************************************************************)
\* the single-item value packs client k was sent so far
C39_Received(k) ==
  SelectSeq(outbox[cliEvents[k]],
            LAMBDA m : m.call = "SC_CHANNELVALUE_PACK_UPDATE_B" /\ Len(m.items) = 1
                       /\ m.total_left = 0)

\* the packs of the changes reported and not yet sent to client k, oldest first
C39_Pending(k) ==
  LET IsChange(e) == e.id = "CHANNEL_VALUE_CHANGED"
      Packs(es) == [i \in 1..Len(es) |-> C7_Pack(es[i].args[1], es[i].args[2])]
  IN Packs(SelectSeq(queue[cliEvents[k]], IsChange))
     \o Packs(SelectSeq(serverEvents, IsChange))

\* the values client k was sent for channel ch, oldest first
C39_ValuesOf(k, ch) ==
  LET of == SelectSeq(C39_Received(k), LAMBDA m : m.items[1].id = ch)
  IN [i \in 1..Len(of) |-> of[i].items[1].value]

C39_Drained == serverEvents = <<>> /\ \A c \in Conns : queue[c] = <<>>

C39_OrderStep ==
  \A k \in DOMAIN clientOnline :
    clientOnline[k] =>
      /\ \/ /\ last'.op = "value_changed" /\ ~last'.raised /\ calls' = calls + 1
            /\ C39_Received(k)' = C39_Received(k)
            /\ C39_Pending(k)' =
                 Append(C39_Pending(k), C7_Pack(last'.channel_id, last'.value))
         \/ /\ C39_Pending(k) # <<>>
            /\ C39_Received(k)' = Append(C39_Received(k), Head(C39_Pending(k)))
            /\ C39_Pending(k)' = Tail(C39_Pending(k))
         \/ /\ C39_Received(k)' = C39_Received(k)
            /\ C39_Pending(k)' = C39_Pending(k)
            /\ calls' = calls
      /\ C39_Drained' =>
           \A ch \in DOMAIN chValue :
             C39_ValuesOf(k, ch)' # <<>> =>
               C39_ValuesOf(k, ch)'[Len(C39_ValuesOf(k, ch)')] = chValue'[ch]

C39_InOrder == [][C39_OrderStep]_vars

\* device 1 reported channel 3 as 01 00 .. and then as 01 02 .. 08; every client
\* was sent the two packs in that order and nothing is on its way any more
C39_Witness ==
  /\ C39_Drained /\ chValue[3] = Bytes8
  /\ \A k \in 1..MaxClients :
       clientOnline[k] /\ C39_ValuesOf(k, 3) = <<On8, Bytes8>>

====
